---- MODULE Spec2Model ----
(***************************************************************************)
(* Access-control and resource-invariant core of the construction          *)
(* management API (apps/api/app): organization resolver, project access    *)
(* resolver, and the project / member / task / risk / milestone / expense  *)
(* / notification route handlers. One request is one atomic action; the    *)
(* response of the most recent request is kept in `last`.                  *)
(***************************************************************************)
EXTENDS Integers, FiniteSets, Sequences, TLC

VARIABLES
    users,            \* users table: id -> [is_active, is_deleted]
    organizations,    \* organizations table: id -> [is_active, is_deleted]
    org_members,      \* organization_members rows
    projects,         \* projects rows
    project_members,  \* project_members rows
    tasks,            \* tasks rows
    risks,            \* risks rows
    milestones,       \* milestones rows
    expenses,         \* expenses rows
    documents,        \* documents rows
    notifications,    \* notifications rows
    revoked_tokens,   \* revoked_tokens rows
    issued,           \* tokens that login has handed to clients
    inflight,         \* requests that have read their row and not yet committed
    boq_headers,      \* boq_headers rows
    boq_items,        \* boq_items rows
    last              \* the last request and its response

vars == <<users, organizations, org_members, projects, project_members, tasks,
          risks, milestones, expenses, documents, notifications,
          revoked_tokens, issued, inflight, boq_headers, boq_items, last>>

----------------------------------------------------------------------------
(* Universe of identifiers and request inputs *)

Users == {"u1", "u2", "u3"}
Orgs == {"o1", "o2"}
NoUser == "none"
NoOrg == "none"
NoHeader == "absent"        \* X-Organization-ID header not sent
BadHeader == "not-a-uuid"   \* header that UUID() rejects
UnknownOrg == "o9"          \* well-formed id of no organization
Headers == Orgs \cup {NoHeader, BadHeader, UnknownOrg}

MaxProjects == 2
MaxTasks == 1
MaxRisks == 1
MaxMilestones == 1
MaxExpenses == 1
MaxNotifications == 1

Caps == {"can_view_project", "can_post_messages", "can_upload_documents",
         "can_edit_tasks", "can_manage_milestones", "can_manage_risks",
         "can_manage_expenses", "can_approve_expenses"}

MembershipStatus == {"Active", "Invited", "Suspended"}
OrgRole == {"Org_Admin", "Member", "Viewer"}

----------------------------------------------------------------------------
(* Responses *)

Resp(op, u, hdr, org, pid, eid, tu, code, detail, result) ==
    [op |-> op, user |-> u, hdr |-> hdr, org |-> org, project_id |-> pid,
     entity_id |-> eid, target_user |-> tu, code |-> code, detail |-> detail,
     result |-> result, body |-> <<>>]

NoRequest == Resp("none", NoUser, NoHeader, NoOrg, 0, 0, NoUser, 0, "", {})

Ok(org) == [code |-> 200, detail |-> "", org |-> org]
Err(code, detail) == [code |-> code, detail |-> detail, org |-> NoOrg]

\* Answer of the handler for an exception no route catches.
InternalError == Err(500, "An internal server error occurred")

----------------------------------------------------------------------------
(* Identity: the caller is the principal the bearer token resolves to *)

GetCurrentUser(u) ==
    IF users[u].is_deleted THEN Err(401, "User not found") ELSE Ok(NoOrg)

GetCurrentActiveUser(u) ==
    LET r == GetCurrentUser(u) IN
    IF r.code # 200 THEN r
    ELSE IF ~users[u].is_active THEN Err(403, "User account is inactive")
    ELSE r

----------------------------------------------------------------------------
(* Organization resolver *)

ActiveOrgMemberships(u) ==
    {m \in org_members : m.user_id = u /\ m.status = "Active"}

OrganizationUsable(o) ==
    /\ o \in Orgs
    /\ organizations[o].is_active
    /\ ~organizations[o].is_deleted

CheckOrgMembership_OrgFirst(u, org_id) ==
    IF ~OrganizationUsable(org_id)
    THEN Err(404, "Organization not found")
    ELSE IF ~(\E m \in ActiveOrgMemberships(u) : m.organization_id = org_id)
    THEN Err(403, "You are not a member of this organization")
    ELSE Ok(org_id)

CheckOrgMembership(u, org_id) ==
    IF ~(\E m \in ActiveOrgMemberships(u) : m.organization_id = org_id)
    THEN Err(403, "You are not a member of this organization")
    ELSE IF ~OrganizationUsable(org_id)
    THEN Err(404, "Organization not found")
    ELSE Ok(org_id)

GetCurrentOrganization_FirstWins(u, hdr) ==
    LET au == GetCurrentActiveUser(u) IN
    IF au.code # 200 THEN au
    ELSE IF hdr = NoHeader THEN
        LET ms == ActiveOrgMemberships(u) IN
        IF Cardinality(ms) = 0
        THEN Err(403, "No active organization membership found for this user")
        ELSE CheckOrgMembership(u, (CHOOSE m \in ms : TRUE).organization_id)
    ELSE IF hdr = BadHeader THEN Err(400, "Invalid organization ID format")
    ELSE CheckOrgMembership(u, hdr)

GetCurrentOrganization(u, hdr) ==
    LET au == GetCurrentActiveUser(u) IN
    IF au.code # 200 THEN au
    ELSE IF hdr = NoHeader THEN
        LET ms == ActiveOrgMemberships(u) IN
        IF Cardinality(ms) = 0
        THEN Err(403, "No active organization membership found for this user")
        ELSE IF Cardinality(ms) = 1
        THEN CheckOrgMembership(u, (CHOOSE m \in ms : TRUE).organization_id)
        ELSE Err(400, "X-Organization-ID header is required")
    ELSE IF hdr = BadHeader THEN Err(400, "Invalid organization ID format")
    ELSE CheckOrgMembership(u, hdr)

GetOrgContext(u, hdr) == GetCurrentOrganization(u, hdr)

----------------------------------------------------------------------------
(* Projects: list *)

VisibleProjects(org) ==
    {p \in projects : p.organization_id = org /\ ~p.is_deleted}

ListProjects(u, hdr) ==
    LET ctx == GetOrgContext(u, hdr) IN
    /\ last' = IF ctx.code # 200
               THEN Resp("list_projects", u, hdr, NoOrg, 0, 0, NoUser,
                         ctx.code, ctx.detail, {})
               ELSE Resp("list_projects", u, hdr, ctx.org, 0, 0, NoUser, 200, "",
                         {p.id : p \in VisibleProjects(ctx.org)})
    /\ UNCHANGED <<boq_headers, boq_items, revoked_tokens, issued, inflight,
                users, organizations, org_members, projects, project_members,
                   tasks, risks, milestones, expenses, documents, notifications>>

----------------------------------------------------------------------------
(* Project access resolver *)

ProjectIds == 1..MaxProjects

GetProjectOr404_AnyOrganization(org, pid) ==
    {p \in projects : p.id = pid /\ ~p.is_deleted}

\* get_project_or_404: the rows matching id, organization and is_deleted = false
GetProjectOr404(org, pid) ==
    {p \in projects : p.id = pid /\ p.organization_id = org /\ ~p.is_deleted}

GetProjectMembership(pid, u) ==
    {m \in project_members : m.project_id = pid /\ m.user_id = u}

IsProjectOwnerOrManager(project, u) ==
    project.manager_id = u \/ project.created_by = u

\* A resolver that consults the membership table before the implicit access
EnsureProjectMember_RowFirst(project, u) ==
    LET rows == GetProjectMembership(project.id, u) IN
    IF rows = {}
    THEN [code |-> 403, detail |-> "You are not a member of this project",
          implicit |-> FALSE, flags |-> {}]
    ELSE [code |-> 200, detail |-> "", implicit |-> FALSE,
          flags |-> (CHOOSE m \in rows : TRUE).flags]

\* ensure_project_member: 200 with the explicit row, or with no row for the
\* implicit access of the manager / creator
EnsureProjectMember(project, u) ==
    IF IsProjectOwnerOrManager(project, u)
    THEN [code |-> 200, detail |-> "", implicit |-> TRUE, flags |-> {}]
    ELSE LET rows == GetProjectMembership(project.id, u) IN
         IF rows = {}
         THEN [code |-> 403, detail |-> "You are not a member of this project",
               implicit |-> FALSE, flags |-> {}]
         ELSE [code |-> 200, detail |-> "", implicit |-> FALSE,
               flags |-> (CHOOSE m \in rows : TRUE).flags]

EnsureProjectPermission(project, u, cap) ==
    LET r == EnsureProjectMember(project, u) IN
    IF r.code # 200 THEN r
    ELSE IF r.implicit THEN r
    ELSE IF cap \notin r.flags
    THEN [r EXCEPT !.code = 403, !.detail = "permission denied"]
    ELSE r

IsActiveOrgMemberUser(org, uid) ==
    /\ uid \in Users
    /\ \E m \in org_members :
         /\ m.organization_id = org
         /\ m.user_id = uid
         /\ m.status = "Active"
    /\ users[uid].is_active
    /\ ~users[uid].is_deleted

IsOrgAdmin(org, uid) ==
    \E m \in org_members :
        /\ m.organization_id = org
        /\ m.user_id = uid
        /\ m.status = "Active"
        /\ m.org_role = "Org_Admin"

CanManageProjectMembers(project, org, u) ==
    \/ project.manager_id = u
    \/ project.created_by = u
    \/ IsOrgAdmin(org, u)

----------------------------------------------------------------------------
(* Projects: create / get / update / delete *)

Unset == "unset"    \* a field the request body does not carry

UnchangedButProjects ==
    UNCHANGED <<boq_headers, boq_items, revoked_tokens, issued, inflight,
                users, organizations, org_members, tasks, risks, milestones,
                expenses, documents, notifications>>

UnchangedButLast ==
    UNCHANGED <<boq_headers, boq_items, revoked_tokens, issued, inflight,
                users, organizations, org_members, projects, project_members,
                tasks, risks, milestones, expenses, documents, notifications>>

Fail(op, u, hdr, org, pid, eid, r) ==
    /\ last' = Resp(op, u, hdr, org, pid, eid, NoUser, r.code, r.detail, {})
    /\ UnchangedButLast

\* The same for a request whose body carries a text
FailBody(op, u, hdr, org, pid, eid, text, r) ==
    /\ last' = [Resp(op, u, hdr, org, pid, eid, NoUser, r.code, r.detail, {})
                    EXCEPT !.body = text]
    /\ UnchangedButLast

\* The same for a request that names a user
FailFor(op, u, hdr, org, pid, eid, tu, r) ==
    /\ last' = Resp(op, u, hdr, org, pid, eid, tu, r.code, r.detail, {})
    /\ UnchangedButLast

\* Dates are day numbers. The terms of a project are its start_date, end_date
\* and total_budget: all three in a create body, any of them in an update body.
DefaultTerms == [start_date |-> 1, end_date |-> 2, total_budget |-> 0]

\* Answer to a body the request schema rejects
Unprocessable == Err(422, "Request validation failed")

\* ck_projects_end_date_after_start_date, ck_projects_total_budget_non_negative
ProjectChecksHold(project) ==
    /\ project.end_date >= project.start_date
    /\ project.total_budget >= 0

CreateProject(u, hdr, manager_id, terms) ==
    LET ctx == GetOrgContext(u, hdr)
        op == "create_project"
        pid == Cardinality(projects) + 1
        project == [id |-> pid, organization_id |-> ctx.org,
                    manager_id |-> manager_id, created_by |-> u,
                    is_deleted |-> FALSE, start_date |-> terms.start_date,
                    end_date |-> terms.end_date,
                    total_budget |-> terms.total_budget] IN
    /\ Cardinality(projects) < MaxProjects
    /\ IF ctx.code # 200 THEN FailBody(op, u, hdr, NoOrg, 0, 0, terms, ctx)
       ELSE IF terms.total_budget < 0
       THEN FailBody(op, u, hdr, ctx.org, 0, 0, terms, Unprocessable)
       ELSE IF users[manager_id].is_deleted
       THEN FailBody(op, u, hdr, ctx.org, 0, 0, terms, Err(404, "Manager not found"))
       ELSE IF ~IsActiveOrgMemberUser(ctx.org, manager_id)
       THEN FailBody(op, u, hdr, ctx.org, 0, 0, terms,
                     Err(400, "Manager must be an active member of this organization"))
       ELSE IF ~ProjectChecksHold(project)
       THEN FailBody(op, u, hdr, ctx.org, 0, 0, terms, InternalError)
       ELSE /\ projects' = projects \cup {project}
            /\ project_members' = project_members \cup
                   {[project_id |-> pid, user_id |-> manager_id, flags |-> Caps]}
            /\ last' = [Resp(op, u, hdr, ctx.org, pid, 0, NoUser, 201, "", {pid})
                            EXCEPT !.body = terms]
            /\ UnchangedButProjects

GetProject(u, hdr, pid) ==
    LET ctx == GetOrgContext(u, hdr)
        op == "get_project" IN
    IF ctx.code # 200 THEN Fail(op, u, hdr, NoOrg, pid, 0, ctx)
    ELSE IF GetProjectOr404(ctx.org, pid) = {}
    THEN Fail(op, u, hdr, ctx.org, pid, 0, Err(404, "Project not found"))
    ELSE /\ last' = Resp(op, u, hdr, ctx.org, pid, 0, NoUser, 200, "", {pid})
         /\ UnchangedButLast

UpdateProject(u, hdr, pid, manager_id, terms) ==
    LET ctx == GetOrgContext(u, hdr)
        op == "update_project"
        Sent(field) == field \in DOMAIN terms IN
    IF ctx.code # 200 THEN FailBody(op, u, hdr, NoOrg, pid, 0, terms, ctx)
    ELSE IF Sent("total_budget") /\ terms.total_budget < 0
    THEN FailBody(op, u, hdr, ctx.org, pid, 0, terms, Unprocessable)
    ELSE IF GetProjectOr404(ctx.org, pid) = {}
    THEN FailBody(op, u, hdr, ctx.org, pid, 0, terms, Err(404, "Project not found"))
    ELSE IF manager_id # Unset /\ ~IsActiveOrgMemberUser(ctx.org, manager_id)
    THEN FailBody(op, u, hdr, ctx.org, pid, 0, terms,
                  Err(400, "Manager must be an active member of this organization"))
    ELSE LET project == CHOOSE p \in GetProjectOr404(ctx.org, pid) : TRUE
             updated ==
                 [project EXCEPT
                    !.manager_id = IF manager_id = Unset THEN @ ELSE manager_id,
                    !.start_date = IF Sent("start_date") THEN terms.start_date ELSE @,
                    !.end_date = IF Sent("end_date") THEN terms.end_date ELSE @,
                    !.total_budget =
                        IF Sent("total_budget") THEN terms.total_budget ELSE @] IN
         IF ~ProjectChecksHold(updated)
         THEN FailBody(op, u, hdr, ctx.org, pid, 0, terms, InternalError)
         ELSE /\ projects' = (projects \ {project}) \cup {updated}
              /\ last' = [Resp(op, u, hdr, ctx.org, pid, 0, NoUser, 200, "", {pid})
                              EXCEPT !.body = terms]
              /\ UNCHANGED project_members
              /\ UnchangedButProjects

DeleteProject(u, hdr, pid) ==
    LET ctx == GetOrgContext(u, hdr)
        op == "delete_project" IN
    IF ctx.code # 200 THEN Fail(op, u, hdr, NoOrg, pid, 0, ctx)
    ELSE IF GetProjectOr404(ctx.org, pid) = {}
    THEN Fail(op, u, hdr, ctx.org, pid, 0, Err(404, "Project not found"))
    ELSE LET project == CHOOSE p \in GetProjectOr404(ctx.org, pid) : TRUE IN
         /\ projects' = (projects \ {project}) \cup
                {[project EXCEPT !.is_deleted = TRUE]}
         /\ last' = Resp(op, u, hdr, ctx.org, pid, 0, NoUser, 204, "", {})
         /\ UNCHANGED project_members
         /\ UnchangedButProjects

----------------------------------------------------------------------------
(* Project members: add / update permissions / remove *)

Null == "null"      \* an explicit JSON null

ManageMembersDenied ==
    Err(403, "Only project manager/owner or org admin can manage project members")

AddProjectMember(u, hdr, pid, target, flags) ==
    LET ctx == GetOrgContext(u, hdr)
        op == "add_project_member" IN
    IF ctx.code # 200 THEN Fail(op, u, hdr, NoOrg, pid, 0, ctx)
    ELSE IF GetProjectOr404(ctx.org, pid) = {}
    THEN Fail(op, u, hdr, ctx.org, pid, 0, Err(404, "Project not found"))
    ELSE LET project == CHOOSE p \in GetProjectOr404(ctx.org, pid) : TRUE IN
         IF ~CanManageProjectMembers(project, ctx.org, u)
         THEN Fail(op, u, hdr, ctx.org, pid, 0, ManageMembersDenied)
         ELSE IF ~IsActiveOrgMemberUser(ctx.org, target)
         THEN Fail(op, u, hdr, ctx.org, pid, 0,
                   Err(400, "User must be an active member of this organization"))
         ELSE IF GetProjectMembership(pid, target) # {}
         THEN Fail(op, u, hdr, ctx.org, pid, 0,
                   Err(400, "User is already a project member"))
         ELSE /\ project_members' = project_members \cup
                     {[project_id |-> pid, user_id |-> target, flags |-> flags]}
              /\ last' = Resp(op, u, hdr, ctx.org, pid, 0, target, 201, "", {})
              /\ UNCHANGED projects
              /\ UnchangedButProjects

\* The body sets every field of `fields` to `value`; fields it does not carry
\* are left alone (exclude_unset). A null reaches the NOT NULL column at commit.
UpdateProjectMemberPermissions(u, hdr, pid, target, fields, value) ==
    LET ctx == GetOrgContext(u, hdr)
        op == "update_project_member_permissions" IN
    IF ctx.code # 200 THEN Fail(op, u, hdr, NoOrg, pid, 0, ctx)
    ELSE IF GetProjectOr404(ctx.org, pid) = {}
    THEN Fail(op, u, hdr, ctx.org, pid, 0, Err(404, "Project not found"))
    ELSE LET project == CHOOSE p \in GetProjectOr404(ctx.org, pid) : TRUE IN
         IF ~CanManageProjectMembers(project, ctx.org, u)
         THEN Fail(op, u, hdr, ctx.org, pid, 0, ManageMembersDenied)
         ELSE IF GetProjectMembership(pid, target) = {}
         THEN Fail(op, u, hdr, ctx.org, pid, 0, Err(404, "Member not found"))
         ELSE IF fields # {} /\ value = Null
         THEN Fail(op, u, hdr, ctx.org, pid, 0, Err(500, "INTERNAL_ERROR"))
         ELSE LET member == CHOOSE m \in GetProjectMembership(pid, target) : TRUE IN
              /\ project_members' = (project_members \ {member}) \cup
                     {[member EXCEPT !.flags =
                         IF value = "true" THEN @ \cup fields ELSE @ \ fields]}
              /\ last' = Resp(op, u, hdr, ctx.org, pid, 0, target, 200, "", {})
              /\ UNCHANGED projects
              /\ UnchangedButProjects

RemoveProjectMember(u, hdr, pid, target) ==
    LET ctx == GetOrgContext(u, hdr)
        op == "remove_project_member" IN
    IF ctx.code # 200 THEN Fail(op, u, hdr, NoOrg, pid, 0, ctx)
    ELSE IF GetProjectOr404(ctx.org, pid) = {}
    THEN Fail(op, u, hdr, ctx.org, pid, 0, Err(404, "Project not found"))
    ELSE LET project == CHOOSE p \in GetProjectOr404(ctx.org, pid) : TRUE IN
         IF ~CanManageProjectMembers(project, ctx.org, u)
         THEN Fail(op, u, hdr, ctx.org, pid, 0, ManageMembersDenied)
         ELSE IF GetProjectMembership(pid, target) = {}
         THEN Fail(op, u, hdr, ctx.org, pid, 0, Err(404, "Member not found"))
         ELSE /\ project_members' = project_members \
                     {CHOOSE m \in GetProjectMembership(pid, target) : TRUE}
              /\ last' = Resp(op, u, hdr, ctx.org, pid, 0, target, 204, "", {})
              /\ UNCHANGED projects
              /\ UnchangedButProjects

----------------------------------------------------------------------------
(* Notifications service *)

NewNotification(org, uid, pid, type, ref) ==
    [id |-> Cardinality(notifications) + 1, organization_id |-> org,
     user_id |-> uid, project_id |-> pid, notification_type |-> type,
     ref |-> ref, is_read |-> FALSE]

----------------------------------------------------------------------------
(* Tasks *)

TaskStatus == {"Pending", "In Progress", "Completed", "Blocked", "Cancelled"}

\* _is_active_org_member of tasks.py / risks.py: an absent user id passes
IsActiveOrgMemberOrNone(org, uid) ==
    uid = NoUser \/ IsActiveOrgMemberUser(org, uid)

VisibleTasks(org, pid) ==
    {t \in tasks : t.project_id = pid /\ t.organization_id = org /\ ~t.is_deleted}

FindTask(org, pid, tid) == {t \in VisibleTasks(org, pid) : t.id = tid}

\* A gate that asks for can_view_project whatever the handler requires
TaskGate_ViewOnly(u, hdr, pid, cap) ==
    LET ctx == GetOrgContext(u, hdr) IN
    IF ctx.code # 200 THEN ctx
    ELSE IF GetProjectOr404(ctx.org, pid) = {}
    THEN [Err(404, "Project not found") EXCEPT !.org = ctx.org]
    ELSE LET perm == EnsureProjectPermission(
                         CHOOSE p \in GetProjectOr404(ctx.org, pid) : TRUE, u,
                         "can_view_project") IN
         IF perm.code # 200
         THEN [code |-> perm.code, detail |-> perm.detail, org |-> ctx.org]
         ELSE ctx

\* The dependencies and checks every task handler starts with: organization,
\* project in that organization, capability.
TaskGate(u, hdr, pid, cap) ==
    LET ctx == GetOrgContext(u, hdr) IN
    IF ctx.code # 200 THEN ctx
    ELSE IF GetProjectOr404(ctx.org, pid) = {}
    THEN [Err(404, "Project not found") EXCEPT !.org = ctx.org]
    ELSE LET perm == EnsureProjectPermission(
                         CHOOSE p \in GetProjectOr404(ctx.org, pid) : TRUE, u, cap) IN
         IF perm.code # 200
         THEN [code |-> perm.code, detail |-> perm.detail, org |-> ctx.org]
         ELSE ctx

UnchangedButTasks ==
    UNCHANGED <<boq_headers, boq_items, revoked_tokens, issued, inflight,
                users, organizations, org_members, projects, project_members,
                risks, milestones, expenses, documents>>

ListTasks(u, hdr, pid) ==
    LET g == TaskGate(u, hdr, pid, "can_view_project")
        op == "list_tasks" IN
    IF g.code # 200 THEN Fail(op, u, hdr, g.org, pid, 0, g)
    ELSE /\ last' = Resp(op, u, hdr, g.org, pid, 0, NoUser, 200, "",
                         {t.id : t \in VisibleTasks(g.org, pid)})
         /\ UnchangedButLast

GetTask(u, hdr, pid, tid) ==
    LET g == TaskGate(u, hdr, pid, "can_view_project")
        op == "get_task" IN
    IF g.code # 200 THEN Fail(op, u, hdr, g.org, pid, tid, g)
    ELSE IF FindTask(g.org, pid, tid) = {}
    THEN Fail(op, u, hdr, g.org, pid, tid, Err(404, "Task not found"))
    ELSE /\ last' = Resp(op, u, hdr, g.org, pid, tid, NoUser, 200, "", {tid})
         /\ UnchangedButLast

CreateTask(u, hdr, pid, status, assignee_id, reporter_id) ==
    LET g == TaskGate(u, hdr, pid, "can_edit_tasks")
        op == "create_task"
        tid == Cardinality(tasks) + 1 IN
    /\ Cardinality(tasks) < MaxTasks
    /\ IF g.code # 200 THEN FailFor(op, u, hdr, g.org, pid, 0, assignee_id, g)
       ELSE IF ~IsActiveOrgMemberOrNone(g.org, assignee_id)
       THEN FailFor(op, u, hdr, g.org, pid, 0, assignee_id,
                 Err(400, "Assignee must be an active member of this organization"))
       ELSE IF ~IsActiveOrgMemberOrNone(g.org, reporter_id)
       THEN FailFor(op, u, hdr, g.org, pid, 0, assignee_id,
                 Err(400, "Reporter must be an active member of this organization"))
       ELSE /\ tasks' = tasks \cup
                   {[id |-> tid, organization_id |-> g.org, project_id |-> pid,
                     status |-> status, progress |-> 0,
                     assignee_id |-> assignee_id,
                     reporter_id |-> IF reporter_id = NoUser THEN u ELSE reporter_id,
                     is_deleted |-> FALSE]}
            /\ IF assignee_id # NoUser /\ assignee_id # u
               THEN /\ Cardinality(notifications) < MaxNotifications
                    /\ notifications' = notifications \cup
                         {NewNotification(g.org, assignee_id, pid, "task_assigned", tid)}
               ELSE UNCHANGED notifications
            /\ last' = Resp(op, u, hdr, g.org, pid, tid, assignee_id, 201, "", {tid})
            /\ UnchangedButTasks

UpdateTask(u, hdr, pid, tid, status, progress, assignee_id) ==
    LET g == TaskGate(u, hdr, pid, "can_edit_tasks")
        op == "update_task" IN
    IF g.code # 200 THEN Fail(op, u, hdr, g.org, pid, tid, g)
    ELSE IF FindTask(g.org, pid, tid) = {}
    THEN Fail(op, u, hdr, g.org, pid, tid, Err(404, "Task not found"))
    ELSE IF assignee_id # Unset /\ ~IsActiveOrgMemberOrNone(g.org, assignee_id)
    THEN Fail(op, u, hdr, g.org, pid, tid,
              Err(400, "Assignee must be an active member of this organization"))
    ELSE LET task == CHOOSE t \in FindTask(g.org, pid, tid) : TRUE
             updated == [task EXCEPT
                 !.status = IF status = Unset THEN @ ELSE status,
                 !.progress = IF progress = <<>> THEN @ ELSE progress[1],
                 !.assignee_id = IF assignee_id = Unset THEN @ ELSE assignee_id] IN
         /\ tasks' = (tasks \ {task}) \cup {updated}
         /\ IF /\ updated.assignee_id # NoUser
               /\ updated.assignee_id # task.assignee_id
               /\ updated.assignee_id # u
            THEN /\ Cardinality(notifications) < MaxNotifications
                 /\ notifications' = notifications \cup
                      {NewNotification(g.org, updated.assignee_id, pid,
                                       "task_assigned", tid)}
            ELSE UNCHANGED notifications
         /\ last' = Resp(op, u, hdr, g.org, pid, tid, NoUser, 200, "", {tid})
         /\ UnchangedButTasks

UpdateTaskStatus(u, hdr, pid, tid, status) ==
    LET g == TaskGate(u, hdr, pid, "can_edit_tasks")
        op == "update_task_status" IN
    IF g.code # 200 THEN Fail(op, u, hdr, g.org, pid, tid, g)
    ELSE IF FindTask(g.org, pid, tid) = {}
    THEN Fail(op, u, hdr, g.org, pid, tid, Err(404, "Task not found"))
    ELSE LET task == CHOOSE t \in FindTask(g.org, pid, tid) : TRUE IN
         /\ tasks' = (tasks \ {task}) \cup
                {[task EXCEPT !.status = status,
                              !.progress = IF status = "Completed" THEN 100
                                           ELSE IF status = "Pending" THEN 0
                                           ELSE @]}
         /\ last' = Resp(op, u, hdr, g.org, pid, tid, NoUser, 200, "", {tid})
         /\ UNCHANGED notifications
         /\ UnchangedButTasks

UpdateTaskProgress(u, hdr, pid, tid, progress) ==
    LET g == TaskGate(u, hdr, pid, "can_edit_tasks")
        op == "update_task_progress" IN
    IF g.code # 200 THEN Fail(op, u, hdr, g.org, pid, tid, g)
    ELSE IF FindTask(g.org, pid, tid) = {}
    THEN Fail(op, u, hdr, g.org, pid, tid, Err(404, "Task not found"))
    ELSE LET task == CHOOSE t \in FindTask(g.org, pid, tid) : TRUE IN
         /\ tasks' = (tasks \ {task}) \cup
                {[task EXCEPT !.progress = progress,
                              !.status = IF progress = 100 THEN "Completed"
                                         ELSE IF progress > 0 /\ @ = "Pending"
                                         THEN "In Progress"
                                         ELSE @]}
         /\ last' = Resp(op, u, hdr, g.org, pid, tid, NoUser, 200, "", {tid})
         /\ UNCHANGED notifications
         /\ UnchangedButTasks

DeleteTask(u, hdr, pid, tid) ==
    LET g == TaskGate(u, hdr, pid, "can_edit_tasks")
        op == "delete_task" IN
    IF g.code # 200 THEN Fail(op, u, hdr, g.org, pid, tid, g)
    ELSE IF FindTask(g.org, pid, tid) = {}
    THEN Fail(op, u, hdr, g.org, pid, tid, Err(404, "Task not found"))
    ELSE LET task == CHOOSE t \in FindTask(g.org, pid, tid) : TRUE IN
         /\ tasks' = (tasks \ {task}) \cup {[task EXCEPT !.is_deleted = TRUE]}
         /\ last' = Resp(op, u, hdr, g.org, pid, tid, NoUser, 204, "", {})
         /\ UNCHANGED notifications
         /\ UnchangedButTasks

----------------------------------------------------------------------------
(* Specification of the organization resolver: any stored membership table *)

OrgStates == {[is_active |-> TRUE, is_deleted |-> FALSE],
              [is_active |-> FALSE, is_deleted |-> FALSE],
              [is_active |-> TRUE, is_deleted |-> TRUE]}

ResolverUsers == {"u1", "u2"}

InitNoSessions ==
    /\ revoked_tokens = {}
    /\ issued = {}
    /\ inflight = {}
    /\ boq_headers = {}
    /\ boq_items = {}

InitEmptyTables ==
    /\ projects = {}
    /\ project_members = {}
    /\ tasks = {}
    /\ risks = {}
    /\ milestones = {}
    /\ expenses = {}
    /\ documents = {}
    /\ notifications = {}
    /\ InitNoSessions
    /\ last = NoRequest

InitOrg ==
    /\ users = [u \in Users |-> [is_active |-> TRUE, is_deleted |-> FALSE]]
    /\ organizations \in [Orgs -> OrgStates]
    /\ \E st \in [Orgs \X ResolverUsers -> MembershipStatus \cup {"None"}] :
         org_members = {[organization_id |-> k[1], user_id |-> k[2],
                         org_role |-> "Member", status |-> st[k]] :
                        k \in {x \in Orgs \X ResolverUsers : st[x] # "None"}}
    /\ InitEmptyTables

NextOrg == \E u \in Users, hdr \in Headers : ListProjects(u, hdr)

SpecOrg == InitOrg /\ [][NextOrg]_vars

----------------------------------------------------------------------------
(* Risks: the handlers resolve the project, or the risk itself, in the      *)
(* caller's organization and make no membership or capability check.        *)

RiskLevels == {"Very_Low", "Low", "Medium", "High", "Very_High"}

LevelValue(level) ==
    CASE level = "Very_Low" -> 1
      [] level = "Low" -> 2
      [] level = "Medium" -> 3
      [] level = "High" -> 4
      [] level = "Very_High" -> 5
      [] OTHER -> 3

calculate_risk_score_Sum(probability, impact) ==
    LevelValue(probability) + LevelValue(impact)

calculate_risk_score(probability, impact) ==
    LevelValue(probability) * LevelValue(impact)

VisibleRisks(org, pid) ==
    {r \in risks : r.project_id = pid /\ r.organization_id = org /\ ~r.is_deleted}

FindRisk(org, pid, rid) == {r \in VisibleRisks(org, pid) : r.id = rid}

UnchangedButRisks ==
    UNCHANGED <<boq_headers, boq_items, revoked_tokens, issued, inflight,
                users, organizations, org_members, projects, project_members,
                tasks, milestones, expenses, documents, notifications>>

ListRisks(u, hdr, pid) ==
    LET ctx == GetOrgContext(u, hdr)
        op == "list_risks" IN
    IF ctx.code # 200 THEN Fail(op, u, hdr, NoOrg, pid, 0, ctx)
    ELSE IF GetProjectOr404(ctx.org, pid) = {}
    THEN Fail(op, u, hdr, ctx.org, pid, 0, Err(404, "Project not found"))
    ELSE /\ last' = Resp(op, u, hdr, ctx.org, pid, 0, NoUser, 200, "",
                         {r.id : r \in VisibleRisks(ctx.org, pid)})
         /\ UnchangedButLast

CreateRisk(u, hdr, pid, probability, impact, owner_id) ==
    LET ctx == GetOrgContext(u, hdr)
        op == "create_risk"
        rid == Cardinality(risks) + 1 IN
    /\ Cardinality(risks) < MaxRisks
    /\ IF ctx.code # 200 THEN Fail(op, u, hdr, NoOrg, pid, 0, ctx)
       ELSE IF GetProjectOr404(ctx.org, pid) = {}
       THEN Fail(op, u, hdr, ctx.org, pid, 0, Err(404, "Project not found"))
       ELSE IF ~IsActiveOrgMemberOrNone(ctx.org, owner_id)
       THEN Fail(op, u, hdr, ctx.org, pid, 0,
                 Err(400, "Owner must be an active member of this organization"))
       ELSE IF probability \notin RiskLevels \/ impact \notin RiskLevels
       THEN Fail(op, u, hdr, ctx.org, pid, 0, InternalError)
       ELSE /\ risks' = risks \cup
                   {[id |-> rid, organization_id |-> ctx.org, project_id |-> pid,
                     probability |-> probability, impact |-> impact,
                     risk_score |-> calculate_risk_score(probability, impact),
                     status |-> "Open", owner_id |-> owner_id,
                     is_deleted |-> FALSE]}
            /\ last' = Resp(op, u, hdr, ctx.org, pid, rid, NoUser, 201, "", {rid})
            /\ UnchangedButRisks

\* The value a PUT leaves in a level column: an absent field keeps the column,
\* a falsy value (null, "") is stored as None by setattr, a string the enum
\* does not know makes the enum constructor raise.
LevelAfterUpdate(current, value) ==
    IF value = Unset THEN current
    ELSE IF value \in {Null, ""} THEN Null
    ELSE value

UpdateRisk(u, hdr, pid, rid, probability, impact, status, owner_id) ==
    LET ctx == GetOrgContext(u, hdr)
        op == "update_risk" IN
    IF ctx.code # 200 THEN Fail(op, u, hdr, NoOrg, pid, rid, ctx)
    ELSE IF FindRisk(ctx.org, pid, rid) = {}
    THEN Fail(op, u, hdr, ctx.org, pid, rid, Err(404, "Risk not found"))
    ELSE IF owner_id # Unset /\ ~IsActiveOrgMemberOrNone(ctx.org, owner_id)
    THEN Fail(op, u, hdr, ctx.org, pid, rid,
              Err(400, "Owner must be an active member of this organization"))
    ELSE LET risk == CHOOSE r \in FindRisk(ctx.org, pid, rid) : TRUE
             probability2 == LevelAfterUpdate(risk.probability, probability)
             impact2 == LevelAfterUpdate(risk.impact, impact) IN
         IF \/ probability2 \notin RiskLevels
            \/ impact2 \notin RiskLevels
         THEN Fail(op, u, hdr, ctx.org, pid, rid, InternalError)
         ELSE /\ risks' = (risks \ {risk}) \cup
                    {[risk EXCEPT
                        !.probability = probability2,
                        !.impact = impact2,
                        !.status = IF status = Unset THEN @ ELSE status,
                        !.owner_id = IF owner_id = Unset THEN @ ELSE owner_id,
                        !.risk_score = calculate_risk_score(probability2, impact2)]}
              /\ last' = Resp(op, u, hdr, ctx.org, pid, rid, NoUser, 200, "", {rid})
              /\ UnchangedButRisks

DeleteRisk(u, hdr, pid, rid) ==
    LET ctx == GetOrgContext(u, hdr)
        op == "delete_risk" IN
    IF ctx.code # 200 THEN Fail(op, u, hdr, NoOrg, pid, rid, ctx)
    ELSE IF FindRisk(ctx.org, pid, rid) = {}
    THEN Fail(op, u, hdr, ctx.org, pid, rid, Err(404, "Risk not found"))
    ELSE LET risk == CHOOSE r \in FindRisk(ctx.org, pid, rid) : TRUE IN
         /\ risks' = (risks \ {risk}) \cup {[risk EXCEPT !.is_deleted = TRUE]}
         /\ last' = Resp(op, u, hdr, ctx.org, pid, rid, NoUser, 204, "", {})
         /\ UnchangedButRisks

----------------------------------------------------------------------------
(* Milestones: dates are day numbers, an absent date is the empty sequence. *)

MilestoneStatus == {"Pending", "On Track", "At Risk", "Delayed", "Completed"}

VisibleMilestones(org, pid) ==
    {m \in milestones :
        m.project_id = pid /\ m.organization_id = org /\ ~m.is_deleted}

FindMilestone(org, pid, mid) == {m \in VisibleMilestones(org, pid) : m.id = mid}

UnchangedButMilestones ==
    UNCHANGED <<boq_headers, boq_items, revoked_tokens, issued, inflight,
                users, organizations, org_members, projects, project_members,
                tasks, risks, expenses, documents, notifications>>

ListMilestones(u, hdr, pid) ==
    LET ctx == GetOrgContext(u, hdr)
        op == "list_milestones" IN
    IF ctx.code # 200 THEN Fail(op, u, hdr, NoOrg, pid, 0, ctx)
    ELSE IF GetProjectOr404(ctx.org, pid) = {}
    THEN Fail(op, u, hdr, ctx.org, pid, 0, Err(404, "Project not found"))
    ELSE /\ last' = Resp(op, u, hdr, ctx.org, pid, 0, NoUser, 200, "",
                         {m.id : m \in VisibleMilestones(ctx.org, pid)})
         /\ UnchangedButLast

CreateMilestone(u, hdr, pid, target_date) ==
    LET ctx == GetOrgContext(u, hdr)
        op == "create_milestone"
        mid == Cardinality(milestones) + 1 IN
    /\ Cardinality(milestones) < MaxMilestones
    /\ IF ctx.code # 200 THEN Fail(op, u, hdr, NoOrg, pid, 0, ctx)
       ELSE IF GetProjectOr404(ctx.org, pid) = {}
       THEN Fail(op, u, hdr, ctx.org, pid, 0, Err(404, "Project not found"))
       ELSE /\ milestones' = milestones \cup
                   {[id |-> mid, organization_id |-> ctx.org, project_id |-> pid,
                     status |-> "Pending", target_date |-> target_date,
                     actual_date |-> <<>>, is_deleted |-> FALSE]}
            /\ last' = Resp(op, u, hdr, ctx.org, pid, mid, NoUser, 201, "", {mid})
            /\ UnchangedButMilestones

\* _parse_milestone_status: the spelling is normalised and looked up in
\* status_map; a spelling the map does not hold is refused
ParseMilestoneStatus(status_value) ==
    CASE status_value \in {"Pending", "pending"} -> "Pending"
      [] status_value \in {"On Track", "on_track", "In Progress"} -> "On Track"
      [] status_value \in {"At Risk", "at-risk"} -> "At Risk"
      [] status_value \in {"Delayed", "delayed"} -> "Delayed"
      [] status_value \in {"Completed", "completed", "COMPLETED"} -> "Completed"
      [] OTHER -> "invalid"

ActualDateAfterUpdate_Kept(status, actual_date, target_date) == actual_date

\* The actual date update_milestone leaves: a Completed milestone without one
\* takes its target date, a milestone that is not Completed loses it
ActualDateAfterUpdate(status, actual_date, target_date) ==
    IF status = "Completed" /\ actual_date = <<>> THEN target_date
    ELSE IF status # "Completed" THEN <<>>
    ELSE actual_date

\* PUT /projects/{pid}/milestones/{mid}. body holds the fields the request
\* sent: status (a string, or Null), target_date and actual_date (<<d>>, or
\* <<>> for null). A falsy status is copied by setattr like any other field;
\* a null in the status or target_date column fails the commit (NOT NULL).
UpdateMilestone(u, hdr, pid, mid, body) ==
    LET ctx == GetOrgContext(u, hdr)
        op == "update_milestone"
        Sent(field) == field \in DOMAIN body
        Parsed(field) == Sent(field) /\ body[field] \notin {Null, ""} IN
    IF ctx.code # 200 THEN FailBody(op, u, hdr, NoOrg, pid, mid, body, ctx)
    ELSE IF FindMilestone(ctx.org, pid, mid) = {}
    THEN FailBody(op, u, hdr, ctx.org, pid, mid, body, Err(404, "Milestone not found"))
    ELSE IF Parsed("status") /\ ParseMilestoneStatus(body.status) = "invalid"
    THEN FailBody(op, u, hdr, ctx.org, pid, mid, body,
                  Err(400, "Invalid milestone status"))
    ELSE LET milestone == CHOOSE m \in FindMilestone(ctx.org, pid, mid) : TRUE
             status2 == IF Parsed("status") THEN ParseMilestoneStatus(body.status)
                        ELSE IF Sent("status") THEN Null
                        ELSE milestone.status
             target2 == IF Sent("target_date") THEN body.target_date
                        ELSE <<milestone.target_date>>
             actual2 == IF Sent("actual_date") THEN body.actual_date
                        ELSE milestone.actual_date IN
         IF status2 = Null \/ target2 = <<>>
         THEN FailBody(op, u, hdr, ctx.org, pid, mid, body, InternalError)
         ELSE /\ milestones' = (milestones \ {milestone}) \cup
                     {[milestone EXCEPT
                         !.status = status2,
                         !.target_date = target2[1],
                         !.actual_date =
                             ActualDateAfterUpdate(status2, actual2, target2)]}
              /\ last' = [Resp(op, u, hdr, ctx.org, pid, mid, NoUser, 200, "", {mid})
                              EXCEPT !.body = body]
              /\ UnchangedButMilestones

DeleteMilestone(u, hdr, pid, mid) ==
    LET ctx == GetOrgContext(u, hdr)
        op == "delete_milestone" IN
    IF ctx.code # 200 THEN Fail(op, u, hdr, NoOrg, pid, mid, ctx)
    ELSE IF FindMilestone(ctx.org, pid, mid) = {}
    THEN Fail(op, u, hdr, ctx.org, pid, mid, Err(404, "Milestone not found"))
    ELSE LET milestone == CHOOSE m \in FindMilestone(ctx.org, pid, mid) : TRUE IN
         /\ milestones' = (milestones \ {milestone}) \cup
                {[milestone EXCEPT !.is_deleted = TRUE]}
         /\ last' = Resp(op, u, hdr, ctx.org, pid, mid, NoUser, 204, "", {})
         /\ UnchangedButMilestones

----------------------------------------------------------------------------
(* Notifications: list, with the due-soon milestone notifications it creates *)

Today == 0          \* the day of the request
DaysAhead == 7

\* _get_accessible_project_ids
AccessibleProjectIds(org, u) ==
    {p.id : p \in {q \in VisibleProjects(org) :
        \/ q.manager_id = u
        \/ q.created_by = u
        \/ \E m \in project_members :
              m.project_id = q.id /\ m.user_id = u /\ "can_view_project" \in m.flags}}

\* ensure_due_soon_milestone_notifications: the milestones that get a new
\* notification for user u
DueSoonMilestones(org, u, pids) ==
    {m \in milestones :
        /\ m.organization_id = org
        /\ m.project_id \in pids
        /\ ~m.is_deleted
        /\ m.status # "Completed"
        /\ m.target_date >= Today
        /\ m.target_date <= Today + DaysAhead
        /\ ~\E n \in notifications :
              /\ n.organization_id = org
              /\ n.user_id = u
              /\ n.notification_type = "milestone_due_soon"
              /\ n.ref = m.id}

\* project id 0 stands for a request without the project_id parameter
ListNotifications(u, hdr, pid) ==
    LET ctx == GetOrgContext(u, hdr)
        op == "list_notifications" IN
    IF ctx.code # 200 THEN Fail(op, u, hdr, NoOrg, pid, 0, ctx)
    ELSE LET accessible == AccessibleProjectIds(ctx.org, u) IN
         IF pid # 0 /\ pid \notin accessible
         THEN Fail(op, u, hdr, ctx.org, pid, 0,
                   Err(403, "You do not have access to this project"))
         ELSE LET due == DueSoonMilestones(ctx.org, u,
                             IF pid # 0 THEN {pid} ELSE accessible)
                  created ==
                      {[id |-> Cardinality(notifications)
                                 + Cardinality({x \in due : x.id <= m.id}),
                        organization_id |-> ctx.org, user_id |-> u,
                        project_id |-> m.project_id,
                        notification_type |-> "milestone_due_soon",
                        ref |-> m.id, is_read |-> FALSE] : m \in due}
                  after == notifications \cup created IN
              /\ Cardinality(after) <= MaxNotifications
              /\ notifications' = after
              /\ last' = Resp(op, u, hdr, ctx.org, pid, 0, NoUser, 200, "",
                              {n.id : n \in {x \in after :
                                  /\ x.organization_id = ctx.org
                                  /\ x.user_id = u
                                  /\ (pid # 0 => x.project_id = pid)}})
              /\ UNCHANGED <<boq_headers, boq_items, revoked_tokens, issued, inflight,
                users, organizations, org_members, projects,
                             project_members, tasks, risks, milestones,
                             expenses, documents>>

----------------------------------------------------------------------------
(* Expenses: document id 0 is an absent receipt; notes are the sequence of  *)
(* the text fragments written so far, empty for no notes.                   *)

ExpenseStatus == {"Pending", "Approved", "Rejected", "Paid"}

\* _validate_receipt_document
ValidReceiptDocument_IgnoreDeleted(org, pid, receipt_document_id) ==
    \/ receipt_document_id = 0
    \/ \E d \in documents : /\ d.id = receipt_document_id
                            /\ d.organization_id = org
                            /\ d.project_id = pid

ValidReceiptDocument(org, pid, receipt_document_id) ==
    \/ receipt_document_id = 0
    \/ \E d \in documents : /\ d.id = receipt_document_id
                            /\ d.organization_id = org
                            /\ d.project_id = pid
                            /\ ~d.is_deleted

ReceiptInvalid ==
    Err(400, "receipt_document_id must reference an existing document in this organization and project")

VisibleExpenses(org, pid) ==
    {e \in expenses : e.project_id = pid /\ e.organization_id = org /\ ~e.is_deleted}

FindExpense(org, pid, eid) == {e \in VisibleExpenses(org, pid) : e.id = eid}

\* The guard of update, approve and reject:
\* expense.status != ExpenseStatus.PENDING raises 400
IsPending_Always(expense) == TRUE

IsPending(expense) == expense.status = "Pending"

\* approve: the note is appended only when the body carries one
ApprovalNotes_Never(notes, text) == notes

ApprovalNotes(notes, text) ==
    IF text = <<>> THEN notes ELSE Append(notes, <<"Approval notes", text[1]>>)

RejectionNotes(notes, text) == Append(notes, <<"Rejection reason", text[1]>>)

\* The dependencies and checks every expense handler starts with
ExpenseGate(u, hdr, pid, cap) == TaskGate(u, hdr, pid, cap)

UnchangedButExpenses ==
    UNCHANGED <<boq_headers, boq_items, revoked_tokens, issued, inflight,
                users, organizations, org_members, projects, project_members,
                tasks, risks, milestones, documents>>

ListExpenses(u, hdr, pid) ==
    LET g == ExpenseGate(u, hdr, pid, "can_view_project")
        op == "list_expenses" IN
    IF g.code # 200 THEN Fail(op, u, hdr, g.org, pid, 0, g)
    ELSE /\ last' = Resp(op, u, hdr, g.org, pid, 0, NoUser, 200, "",
                         {e.id : e \in VisibleExpenses(g.org, pid)})
         /\ UnchangedButLast

GetExpense(u, hdr, pid, eid) ==
    LET g == ExpenseGate(u, hdr, pid, "can_view_project")
        op == "get_expense" IN
    IF g.code # 200 THEN Fail(op, u, hdr, g.org, pid, eid, g)
    ELSE IF FindExpense(g.org, pid, eid) = {}
    THEN Fail(op, u, hdr, g.org, pid, eid, Err(404, "Expense not found"))
    ELSE /\ last' = Resp(op, u, hdr, g.org, pid, eid, NoUser, 200, "", {eid})
         /\ UnchangedButLast

\* The notification branch after the commit compares logged_by_id, just set
\* to the caller, with the caller: it never runs.
CreateExpense(u, hdr, pid, receipt_document_id, notes) ==
    LET g == ExpenseGate(u, hdr, pid, "can_manage_expenses")
        op == "create_expense"
        eid == Cardinality(expenses) + 1
        body == [receipt_document_id |-> receipt_document_id] IN
    /\ Cardinality(expenses) < MaxExpenses
    /\ IF g.code # 200 THEN FailBody(op, u, hdr, g.org, pid, 0, body, g)
       ELSE IF ~ValidReceiptDocument(g.org, pid, receipt_document_id)
       THEN FailBody(op, u, hdr, g.org, pid, 0, body, ReceiptInvalid)
       ELSE /\ expenses' = expenses \cup
                   {[id |-> eid, organization_id |-> g.org, project_id |-> pid,
                     status |-> "Pending", logged_by_id |-> u,
                     approved_by_id |-> NoUser,
                     receipt_document_id |-> receipt_document_id,
                     notes |-> notes, is_deleted |-> FALSE]}
            /\ last' = [Resp(op, u, hdr, g.org, pid, eid, NoUser, 201, "", {eid})
                            EXCEPT !.body = body]
            /\ UNCHANGED notifications
            /\ UnchangedButExpenses

\* body is a record holding the fields the request sets, among
\* receipt_document_id and notes
UpdateExpense(u, hdr, pid, eid, body) ==
    LET g == ExpenseGate(u, hdr, pid, "can_manage_expenses")
        op == "update_expense" IN
    IF g.code # 200 THEN FailBody(op, u, hdr, g.org, pid, eid, body, g)
    ELSE IF FindExpense(g.org, pid, eid) = {}
    THEN FailBody(op, u, hdr, g.org, pid, eid, body, Err(404, "Expense not found"))
    ELSE LET expense == CHOOSE e \in FindExpense(g.org, pid, eid) : TRUE IN
         IF ~IsPending(expense)
         THEN FailBody(op, u, hdr, g.org, pid, eid, body,
                       Err(400, "Can only update pending expenses"))
         ELSE IF /\ "receipt_document_id" \in DOMAIN body
                 /\ ~ValidReceiptDocument(g.org, pid, body.receipt_document_id)
         THEN FailBody(op, u, hdr, g.org, pid, eid, body, ReceiptInvalid)
         ELSE /\ expenses' = (expenses \ {expense}) \cup
                     {[expense EXCEPT
                         !.receipt_document_id =
                             IF "receipt_document_id" \in DOMAIN body
                             THEN body.receipt_document_id ELSE @,
                         !.notes = IF "notes" \in DOMAIN body
                                   THEN body.notes ELSE @]}
              /\ IF expense.logged_by_id # u
                 THEN /\ Cardinality(notifications) < MaxNotifications
                      /\ notifications' = notifications \cup
                           {NewNotification(g.org, expense.logged_by_id, pid,
                                            "expense_rejected", eid)}
                 ELSE UNCHANGED notifications
              /\ last' = [Resp(op, u, hdr, g.org, pid, eid, NoUser, 200, "", {eid})
                              EXCEPT !.body = body]
              /\ UnchangedButExpenses

\* text is the notes of the body: empty, or one string
ApproveExpense(u, hdr, pid, eid, text) ==
    LET g == ExpenseGate(u, hdr, pid, "can_approve_expenses")
        op == "approve_expense" IN
    IF g.code # 200 THEN FailBody(op, u, hdr, g.org, pid, eid, text, g)
    ELSE IF FindExpense(g.org, pid, eid) = {}
    THEN FailBody(op, u, hdr, g.org, pid, eid, text, Err(404, "Expense not found"))
    ELSE LET expense == CHOOSE e \in FindExpense(g.org, pid, eid) : TRUE IN
         IF ~IsPending(expense)
         THEN FailBody(op, u, hdr, g.org, pid, eid, text,
                   Err(400, "Can only approve pending expenses"))
         ELSE /\ expenses' = (expenses \ {expense}) \cup
                     {[expense EXCEPT !.status = "Approved",
                                      !.approved_by_id = u,
                                      !.notes = ApprovalNotes(@, text)]}
              /\ last' = [Resp(op, u, hdr, g.org, pid, eid, NoUser, 200, "", {eid})
                              EXCEPT !.body = text]
              /\ UNCHANGED notifications
              /\ UnchangedButExpenses

RejectExpense(u, hdr, pid, eid, text) ==
    LET g == ExpenseGate(u, hdr, pid, "can_approve_expenses")
        op == "reject_expense" IN
    IF g.code # 200 THEN FailBody(op, u, hdr, g.org, pid, eid, text, g)
    ELSE IF FindExpense(g.org, pid, eid) = {}
    THEN FailBody(op, u, hdr, g.org, pid, eid, text, Err(404, "Expense not found"))
    ELSE LET expense == CHOOSE e \in FindExpense(g.org, pid, eid) : TRUE IN
         IF ~IsPending(expense)
         THEN FailBody(op, u, hdr, g.org, pid, eid, text,
                   Err(400, "Can only reject pending expenses"))
         ELSE /\ expenses' = (expenses \ {expense}) \cup
                     {[expense EXCEPT !.status = "Rejected",
                                      !.approved_by_id = u,
                                      !.notes = RejectionNotes(@, text)]}
              /\ last' = [Resp(op, u, hdr, g.org, pid, eid, NoUser, 200, "", {eid})
                              EXCEPT !.body = text]
              /\ UNCHANGED notifications
              /\ UnchangedButExpenses

DeleteExpense(u, hdr, pid, eid) ==
    LET g == ExpenseGate(u, hdr, pid, "can_manage_expenses")
        op == "delete_expense" IN
    IF g.code # 200 THEN Fail(op, u, hdr, g.org, pid, eid, g)
    ELSE IF FindExpense(g.org, pid, eid) = {}
    THEN Fail(op, u, hdr, g.org, pid, eid, Err(404, "Expense not found"))
    ELSE LET expense == CHOOSE e \in FindExpense(g.org, pid, eid) : TRUE IN
         /\ expenses' = (expenses \ {expense}) \cup
                {[expense EXCEPT !.is_deleted = TRUE]}
         /\ last' = Resp(op, u, hdr, g.org, pid, eid, NoUser, 204, "", {})
         /\ UNCHANGED notifications
         /\ UnchangedButExpenses

----------------------------------------------------------------------------
(* Approve and reject as the two store round trips they are: the SELECT     *)
(* with the checks made on the row it returned, then the UPDATE by primary  *)
(* key at commit. A single server process runs one handler body at a time;  *)
(* two processes that share the store can each be between the two steps.    *)
(* The handlers take no row lock, carry no version column and put no        *)
(* status condition on the UPDATE.                                          *)

MaxInflight == 2

DecisionOps == {"approve_expense", "reject_expense"}

DecidedStatus(op) == IF op = "approve_expense" THEN "Approved" ELSE "Rejected"

DecisionDetail(op) ==
    IF op = "approve_expense" THEN "Can only approve pending expenses"
    ELSE "Can only reject pending expenses"

\* notes as the handler computes them from the row it has loaded
DecisionNotes(op, notes, text) ==
    IF op = "approve_expense" THEN ApprovalNotes(notes, text)
    ELSE RejectionNotes(notes, text)

\* First round trip: dependencies, SELECT, and the checks on the loaded row
DecisionRead(op, u, hdr, pid, eid, text) ==
    LET g == ExpenseGate(u, hdr, pid, "can_approve_expenses") IN
    /\ Cardinality(inflight) < MaxInflight
    /\ \A q \in inflight : q.user # u
    /\ IF g.code # 200 THEN FailBody(op, u, hdr, g.org, pid, eid, text, g)
       ELSE IF FindExpense(g.org, pid, eid) = {}
       THEN FailBody(op, u, hdr, g.org, pid, eid, text,
                     Err(404, "Expense not found"))
       ELSE LET expense == CHOOSE e \in FindExpense(g.org, pid, eid) : TRUE IN
            IF ~IsPending(expense)
            THEN FailBody(op, u, hdr, g.org, pid, eid, text,
                          Err(400, DecisionDetail(op)))
            ELSE /\ inflight' = inflight \cup
                        {[op |-> op, user |-> u, hdr |-> hdr, org |-> g.org,
                          project_id |-> pid, entity_id |-> eid, text |-> text,
                          loaded |-> expense]}
                 /\ UNCHANGED <<boq_headers, boq_items, revoked_tokens, issued,
                                users, organizations, org_members, projects, project_members, tasks,
                                risks, milestones, expenses, documents,
                                notifications, last>>

\* Second round trip: the UPDATE of the attributes the handler assigned, on
\* the row with the loaded primary key, and the response
DecisionCommit(q) ==
    /\ q \in inflight
    /\ expenses' =
          {IF e.id = q.loaded.id
           THEN [e EXCEPT !.status = DecidedStatus(q.op),
                          !.approved_by_id = q.user,
                          !.notes = IF q.op = "approve_expense" /\ q.text = <<>>
                                    THEN @
                                    ELSE DecisionNotes(q.op, q.loaded.notes, q.text)]
           ELSE e : e \in expenses}
    /\ inflight' = inflight \ {q}
    /\ last' = [Resp(q.op, q.user, q.hdr, q.org, q.project_id, q.entity_id,
                     NoUser, 200, "", {q.entity_id})
                    EXCEPT !.body = q.text]
    /\ UNCHANGED <<boq_headers, boq_items, revoked_tokens, issued,
                   users, organizations, org_members, projects, project_members, tasks, risks, milestones,
                   documents, notifications>>

----------------------------------------------------------------------------
(* Bill of quantities: one header per project, found or created by the      *)
(* import, and the items of the header, each with its parent item (0 when   *)
(* it has none), weight and completion. An upload is the sequence of its    *)
(* data rows.                                                               *)

MaxBoqItems == 2

BoqItemIds == 1..MaxBoqItems

\* A data row of the upload. A cell is <<>> when blank and <<n>> when it
\* holds the integer n; codes are "" when blank.
Row(description, item_code, parent_item_code, weight_out_of_10, percent_complete) ==
    [description |-> description, item_code |-> item_code,
     parent_item_code |-> parent_item_code,
     weight_out_of_10 |-> weight_out_of_10,
     percent_complete |-> percent_complete]

BoqUploads ==
    {<<>>,
     <<Row(FALSE, "", "", <<>>, <<>>)>>,
     <<Row(TRUE, "", "", <<>>, <<>>)>>,
     <<Row(TRUE, "a", "", <<10>>, <<100>>), Row(TRUE, "b", "a", <<0>>, <<50>>)>>,
     <<Row(TRUE, "a", "b", <<15>>, <<100>>), Row(TRUE, "b", "a", <<0>>, <<50>>)>>}

Clamp(n, min_value, max_value) ==
    LET low == IF n < min_value THEN min_value ELSE n IN
    IF low > max_value THEN max_value ELSE low

\* _int_value with both limits given
IntValue(value, default, min_value, max_value) ==
    Clamp(IF value = <<>> THEN default ELSE value[1], min_value, max_value)

\* the latest header of the project
LatestHeader(org, pid) ==
    {h \in boq_headers : h.organization_id = org /\ h.project_id = pid}

\* ids of n new rows: ids of no row of the table
NewItemIds(n) ==
    LET free == BoqItemIds \ {x.id : x \in boq_items} IN
    CHOOSE S \in SUBSET free :
        Cardinality(S) = n /\ \A a \in S, b \in free \ S : a < b

UnchangedButBoq ==
    UNCHANGED <<revoked_tokens, issued, inflight, users, organizations,
                org_members, projects, project_members, tasks, risks,
                milestones, expenses, documents, notifications>>

\* POST /projects/{pid}/boq/import
ImportBoq(u, hdr, pid, rows) ==
    LET g == TaskGate(u, hdr, pid, "can_edit_tasks")
        op == "import_boq"
        described == SelectSeq(rows, LAMBDA r : r.description)
        n == Len(described) IN
    /\ Cardinality(BoqItemIds \ {x.id : x \in boq_items}) >= n
    /\ IF g.code # 200
       THEN /\ last' = Resp(op, u, hdr, g.org, pid, 0, NoUser, g.code, g.detail, {})
            /\ UNCHANGED <<boq_headers, boq_items>>
            /\ UnchangedButBoq
       ELSE IF rows = <<>>
       THEN /\ last' = Resp(op, u, hdr, g.org, pid, 0, NoUser, 400,
                            "Import file has no data rows", {})
            /\ UNCHANGED <<boq_headers, boq_items>>
            /\ UnchangedButBoq
       ELSE LET found == LatestHeader(g.org, pid)
                header == IF found # {} THEN CHOOSE h \in found : TRUE
                          ELSE [id |-> Cardinality(boq_headers) + 1,
                                organization_id |-> g.org, project_id |-> pid]
                kept == IF found # {}
                        THEN {x \in boq_items : x.header_id # header.id}
                        ELSE boq_items
                ids == NewItemIds(n)
                \* id of the k-th created item
                IdOf(k) == CHOOSE i \in ids : Cardinality({j \in ids : j < i}) = k - 1
                \* by_code and parent_code_map keep the last row of a code
                RowsOf(code) == {k \in 1..n : described[k].item_code = code}
                Latest(K) == CHOOSE k \in K : \A j \in K : j <= k
                ParentCode(code) ==
                    LET K == {k \in RowsOf(code) : described[k].parent_item_code # ""} IN
                    IF K = {} THEN "" ELSE described[Latest(K)].parent_item_code
                ParentId(k) ==
                    LET code == described[k].item_code
                        parent_code == IF code = "" THEN "" ELSE ParentCode(code) IN
                    IF parent_code = "" \/ RowsOf(parent_code) = {} THEN 0
                    ELSE IF IdOf(Latest(RowsOf(parent_code))) # IdOf(k)
                    THEN IdOf(Latest(RowsOf(parent_code)))
                    ELSE 0
                created == {[id |-> IdOf(k), header_id |-> header.id,
                             organization_id |-> g.org, project_id |-> pid,
                             parent_item_id |-> ParentId(k),
                             item_code |-> described[k].item_code,
                             weight_out_of_10 |->
                                 IntValue(described[k].weight_out_of_10, 1, 0, 10),
                             percent_complete |->
                                 IntValue(described[k].percent_complete, 0, 0, 100)]
                            : k \in 1..n} IN
            /\ boq_headers' = boq_headers \cup {header}
            /\ boq_items' = kept \cup created
            /\ last' = Resp(op, u, hdr, g.org, pid, header.id, NoUser, 200, "",
                            {x.id : x \in created})
            /\ UnchangedButBoq

\* PATCH /projects/{pid}/boq/items/{item_id}: the body is a record of the
\* fields sent; an integer field is <<>> for null; parent_item_id is 0 for
\* null. The foreign key of parent_item_id is checked by the commit.
PatchBoqItem(u, hdr, pid, item_id, body) ==
    LET g == TaskGate(u, hdr, pid, "can_edit_tasks")
        op == "patch_boq_item"
        found == {x \in boq_items : /\ x.id = item_id
                                    /\ x.organization_id = g.org
                                    /\ x.project_id = pid}
        Sent(field) == field \in DOMAIN body IN
    IF g.code # 200
    THEN /\ last' = Resp(op, u, hdr, g.org, pid, item_id, NoUser, g.code, g.detail, {})
         /\ UNCHANGED <<boq_headers, boq_items>>
         /\ UnchangedButBoq
    ELSE IF found = {}
    THEN /\ last' = Resp(op, u, hdr, g.org, pid, item_id, NoUser, 404,
                         "BOQ item not found", {})
         /\ UNCHANGED <<boq_headers, boq_items>>
         /\ UnchangedButBoq
    ELSE IF /\ Sent("parent_item_id")
            /\ body.parent_item_id # 0
            /\ body.parent_item_id \notin {x.id : x \in boq_items}
    THEN /\ last' = Resp(op, u, hdr, g.org, pid, item_id, NoUser, InternalError.code,
                         InternalError.detail, {})
         /\ UNCHANGED <<boq_headers, boq_items>>
         /\ UnchangedButBoq
    ELSE /\ boq_items' =
              {IF x \in found
               THEN [x EXCEPT
                       !.parent_item_id =
                           IF Sent("parent_item_id") THEN body.parent_item_id ELSE @,
                       !.weight_out_of_10 =
                           IF Sent("weight_out_of_10")
                           THEN IntValue(body.weight_out_of_10, 1, 0, 10)
                           ELSE Clamp(@, 0, 10),
                       !.percent_complete =
                           IF Sent("percent_complete")
                           THEN IntValue(body.percent_complete, 0, 0, 100)
                           ELSE Clamp(@, 0, 100)]
               ELSE x : x \in boq_items}
         /\ last' = Resp(op, u, hdr, g.org, pid, item_id, NoUser, 200, "", {item_id})
         /\ UNCHANGED boq_headers
         /\ UnchangedButBoq

\* A completion percentage as the exact quotient num / den
Quotient(num, den) == [num |-> num, den |-> den]

RECURSIVE Total(_, _)
\* sum of f[x] over the rows x of S
Total(S, f) ==
    IF S = {} THEN 0
    ELSE LET x == CHOOSE y \in S : TRUE IN f[x] + Total(S \ {x}, f)

_leaf_items_All(items) == items

_leaf_items(items) ==
    LET parent_ids == {x.parent_item_id : x \in {y \in items : y.parent_item_id # 0}} IN
    {x \in items : x.id \notin parent_ids}

\* weight_fraction is held in tenths, completion_fraction in hundredths and
\* weighted_sum in thousandths, so (weighted_sum / total_weight) * 100 is
\* the quotient of the two integer sums.
_compute_weighted_completion(items) ==
    LET leaves == _leaf_items(items)
        total_weight == Total(leaves, [x \in leaves |-> x.weight_out_of_10])
        weighted_sum ==
            Total(leaves, [x \in leaves |-> x.weight_out_of_10 * x.percent_complete]) IN
    IF leaves = {} THEN Quotient(0, 1)
    ELSE IF total_weight <= 0
    THEN Quotient(Total(leaves, [x \in leaves |-> x.percent_complete]),
                  Cardinality(leaves))
    ELSE Quotient(weighted_sum, total_weight)

\* round(x, 2), in hundredths: to the nearest, an exact tie to the even one
Round2(q) ==
    LET scaled == q.num * 100
        whole == scaled \div q.den
        rest == scaled % q.den IN
    IF 2 * rest < q.den THEN whole
    ELSE IF 2 * rest > q.den THEN whole + 1
    ELSE IF whole % 2 = 0 THEN whole ELSE whole + 1

\* GET /projects/{pid}/boq/summary
GetBoqSummary(u, hdr, pid) ==
    LET g == TaskGate(u, hdr, pid, "can_view_project")
        op == "get_boq_summary"
        found == LatestHeader(g.org, pid) IN
    /\ IF g.code # 200
       THEN last' = Resp(op, u, hdr, g.org, pid, 0, NoUser, g.code, g.detail, {})
       ELSE IF found = {}
       THEN last' = Resp(op, u, hdr, g.org, pid, 0, NoUser, 404,
                         "No BOQ found for this project", {})
       ELSE LET header == CHOOSE h \in found : TRUE
                items == {x \in boq_items : x.header_id = header.id} IN
            last' = Resp(op, u, hdr, g.org, pid, header.id, NoUser, 200, "",
                         [total_items |-> Cardinality(items),
                          project_weighted_completion_percent |->
                              IF items = {} THEN 0
                              ELSE Round2(_compute_weighted_completion(items))])
    /\ UNCHANGED <<boq_headers, boq_items>>
    /\ UnchangedButBoq

----------------------------------------------------------------------------
(* Fixture shared by the project-scoped specifications: organization o1 with *)
(* admin u1 and members u2, u3; organization o2 with admin u3.              *)

FixtureOrgMembers ==
    {[organization_id |-> "o1", user_id |-> "u1", org_role |-> "Org_Admin", status |-> "Active"],
     [organization_id |-> "o1", user_id |-> "u2", org_role |-> "Member", status |-> "Active"],
     [organization_id |-> "o1", user_id |-> "u3", org_role |-> "Member", status |-> "Active"],
     [organization_id |-> "o2", user_id |-> "u3", org_role |-> "Org_Admin", status |-> "Active"]}

InitTenants ==
    /\ users = [u \in Users |-> [is_active |-> TRUE, is_deleted |-> FALSE]]
    /\ organizations = [o \in Orgs |-> [is_active |-> TRUE, is_deleted |-> FALSE]]
    /\ org_members = FixtureOrgMembers

Project(pid, org, manager, creator) ==
    [id |-> pid, organization_id |-> org, manager_id |-> manager,
     created_by |-> creator, is_deleted |-> FALSE,
     start_date |-> DefaultTerms.start_date, end_date |-> DefaultTerms.end_date,
     total_budget |-> DefaultTerms.total_budget]

MemberRow(pid, u, flags) == [project_id |-> pid, user_id |-> u, flags |-> flags]

TaskRow(tid, org, pid, status, progress) ==
    [id |-> tid, organization_id |-> org, project_id |-> pid, status |-> status,
     progress |-> progress, assignee_id |-> NoUser, reporter_id |-> "u1",
     is_deleted |-> FALSE]

----------------------------------------------------------------------------
(* Specification of the capability check: one project of o1 with any manager, *)
(* any creator and any membership rows, read and written through the task    *)
(* handlers.                                                                 *)

PermFlagSets == {{}, {"can_view_project"}, {"can_edit_tasks"}}

InitPerm ==
    /\ InitTenants
    /\ \E mgr \in Users, cr \in {"u1", "u2"} :
         projects = {Project(1, "o1", mgr, cr), Project(2, "o2", "u3", "u3")}
    /\ \E rows \in [Users -> PermFlagSets \cup {{"no row"}}] :
         project_members =
             {MemberRow(1, u, rows[u]) : u \in {x \in Users : rows[x] # {"no row"}}}
    /\ tasks = {TaskRow(1, "o1", 1, "Pending", 0)}
    /\ risks = {}
    /\ milestones = {}
    /\ expenses = {}
    /\ documents = {}
    /\ notifications = {}
    /\ InitNoSessions
    /\ last = NoRequest

NextPerm ==
    \E u \in Users, hdr \in Orgs :
        \/ ListTasks(u, hdr, 1)
        \/ UpdateTaskStatus(u, hdr, 1, 1, "Completed")
        \/ DeleteTask(u, hdr, 1, 1)

SpecPerm == InitPerm /\ [][NextPerm]_vars

----------------------------------------------------------------------------
(* Specification of the task handlers: project 1 of o1 created and managed   *)
(* by u1, u2 an explicit member whose can_edit_tasks flag the manager flips, *)
(* u3 an organization member without a membership row.                      *)

UnknownUser == "u9"     \* well-formed id of no user

InitTask ==
    /\ InitTenants
    /\ projects = {Project(1, "o1", "u1", "u1"), Project(2, "o2", "u3", "u3")}
    /\ project_members = {MemberRow(1, "u1", Caps),
                          MemberRow(1, "u2", {"can_view_project"}),
                          MemberRow(2, "u3", Caps)}
    /\ tasks = {}
    /\ risks = {}
    /\ milestones = {}
    /\ expenses = {}
    /\ documents = {}
    /\ notifications = {}
    /\ InitNoSessions
    /\ last = NoRequest

TaskIds == 1..MaxTasks

NextTask ==
    \/ \E u \in Users, hdr \in Orgs, value \in {"true", "false"} :
          UpdateProjectMemberPermissions(u, hdr, 1, "u2", {"can_edit_tasks"}, value)
    \/ \E u \in Users, hdr \in Orgs :
          \/ \E assignee \in {NoUser, UnknownUser} :
                CreateTask(u, hdr, 1, "Pending", assignee, NoUser)
          \/ \E tid \in TaskIds :
                \/ UpdateTask(u, hdr, 1, tid, "Blocked", <<>>, Unset)
                \/ \E status \in {"Pending", "Completed"} :
                      UpdateTaskStatus(u, hdr, 1, tid, status)
                \/ UpdateTaskProgress(u, hdr, 1, tid, 50)
                \/ DeleteTask(u, hdr, 1, tid)

SpecTask == InitTask /\ [][NextTask]_vars

----------------------------------------------------------------------------
(* Specification of the project handlers: project 1 of o1 and project 2 of  *)
(* o2, each created by its organization's admin naming themselves manager.  *)

InitProject ==
    /\ InitTenants
    /\ projects = {Project(1, "o1", "u1", "u1"), Project(2, "o2", "u3", "u3")}
    /\ project_members = {MemberRow(1, "u1", Caps), MemberRow(2, "u3", Caps)}
    /\ tasks = {}
    /\ risks = {}
    /\ milestones = {}
    /\ expenses = {}
    /\ documents = {}
    /\ notifications = {}
    /\ InitNoSessions
    /\ last = NoRequest

NextProject ==
    \E u \in Users, hdr \in Orgs :
        \/ ListProjects(u, hdr)
        \/ \E pid \in ProjectIds \cup {0} : ListNotifications(u, hdr, pid)
        \/ \E pid \in ProjectIds :
              \/ GetProject(u, hdr, pid)
              \/ \E manager_id \in {Unset, "u1", "u2"} :
                    UpdateProject(u, hdr, pid, manager_id, <<>>)
              \/ DeleteProject(u, hdr, pid)
              \/ AddProjectMember(u, hdr, pid, "u2", {"can_view_project"})
              \/ \E value \in {"true", "false", Null} :
                    UpdateProjectMemberPermissions(u, hdr, pid, "u2",
                                                   {"can_view_project"}, value)
              \/ RemoveProjectMember(u, hdr, pid, "u2")

SpecProject == InitProject /\ [][NextProject]_vars

----------------------------------------------------------------------------
(* Specification of the risk and milestone handlers, on the projects of the *)
(* task specification.                                                      *)

RiskIds == 1..MaxRisks
MilestoneIds == 1..MaxMilestones

NextRisk ==
    \E u \in Users, hdr \in Orgs, pid \in ProjectIds :
        \/ ListRisks(u, hdr, pid)
        \/ CreateRisk(u, hdr, pid, "High", "Low", NoUser)
        \/ \E rid \in RiskIds :
              \/ UpdateRisk(u, hdr, pid, rid, Unset, "High", Unset, Unset)
              \/ DeleteRisk(u, hdr, pid, rid)
        \/ ListMilestones(u, hdr, pid)
        \/ CreateMilestone(u, hdr, pid, 3)
        \/ \E mid \in MilestoneIds :
              \/ UpdateMilestone(u, hdr, pid, mid, [status |-> "Completed"])
              \/ DeleteMilestone(u, hdr, pid, mid)

SpecRisk == InitTask /\ [][NextRisk]_vars

----------------------------------------------------------------------------
(* Specification of the expense handlers: project 1 of o1 created and       *)
(* managed by u1, u2 a member who approves expenses, u3 a member who        *)
(* manages them; one document of the project. The two members log, edit    *)
(* and delete; everybody approves and rejects.                             *)

InitExpense ==
    /\ InitTenants
    /\ projects = {Project(1, "o1", "u1", "u1"), Project(2, "o2", "u3", "u3")}
    /\ project_members =
         {MemberRow(1, "u1", Caps),
          MemberRow(1, "u2", {"can_view_project", "can_approve_expenses"}),
          MemberRow(1, "u3", {"can_view_project", "can_manage_expenses"}),
          MemberRow(2, "u3", Caps)}
    /\ tasks = {}
    /\ risks = {}
    /\ milestones = {}
    /\ expenses = {}
    /\ documents = {[id |-> 1, organization_id |-> "o1", project_id |-> 1,
                     is_deleted |-> FALSE]}
    /\ notifications = {}
    /\ InitNoSessions
    /\ last = NoRequest

ExpenseIds == 1..MaxExpenses

ExpenseCallers == {"u2", "u3"}

NextExpense ==
    \/ \E u \in ExpenseCallers, hdr \in Orgs :
          \/ \E receipt \in {1, 2} : CreateExpense(u, hdr, 1, receipt, <<>>)
          \/ \E eid \in ExpenseIds :
                \/ UpdateExpense(u, hdr, 1, eid, [notes |-> <<"edited">>])
                \/ DeleteExpense(u, hdr, 1, eid)
    \/ \E u \in Users, hdr \in Orgs, eid \in ExpenseIds :
          \/ \E text \in {<<>>, <<"ok">>} : ApproveExpense(u, hdr, 1, eid, text)
          \/ RejectExpense(u, hdr, 1, eid, <<"no">>)

SpecExpense == InitExpense /\ [][NextExpense]_vars

----------------------------------------------------------------------------
(* Tokens and the auth routes. A token is what decode_token sees: its type, *)
(* its subject, its jti claim if it carries one, and whether its exp has    *)
(* passed; "garbage" is a string that does not decode under SECRET_KEY,     *)
(* "absent" a header or cookie that was not sent.                           *)

NoJti == "no-jti"

Token(type, sub, jti, expired) ==
    [type |-> type, sub |-> sub, jti |-> jti, expired |-> expired]

NoToken == Token("absent", NoUser, NoJti, FALSE)
Garbage == Token("garbage", NoUser, NoJti, FALSE)

\* create_access_token / create_refresh_token on the data login and refresh
\* pass: sub (and email), to which exp, iat and type are added
create_access_token(sub) == Token("access", sub, NoJti, FALSE)
create_refresh_token(sub) == Token("refresh", sub, NoJti, FALSE)

\* decode_token followed by verify_token_type
DecodesAs(t, expected_type) ==
    /\ t.type \in {"access", "refresh"}
    /\ ~t.expired
    /\ t.type = expected_type

UserRow(u) == IF u \in Users THEN {users[u]} ELSE {}

\* get_current_user on the Authorization header "Bearer t"
AuthenticateBearer(t) ==
    IF t = NoToken THEN Err(401, "Missing authorization header")
    ELSE IF t.type \notin {"access", "refresh"} THEN Err(401, "Invalid token")
    ELSE IF t.expired THEN Err(401, "Token has expired")
    ELSE IF t.type # "access" THEN Err(401, "Expected access token, got refresh")
    ELSE IF \A x \in UserRow(t.sub) : x.is_deleted THEN Err(401, "User not found")
    ELSE Ok(NoOrg)

\* get_current_active_user
AuthenticateActive(t) ==
    LET r == AuthenticateBearer(t) IN
    IF r.code # 200 THEN r
    ELSE IF ~users[t.sub].is_active THEN Err(403, "User account is inactive")
    ELSE r

IsRevoked_Never(jti) == FALSE

IsRevoked(jti) == \E x \in revoked_tokens : x.jti = jti

\* _revoke_token_if_valid: the rows it adds to the session
RevokeTokenIfValid(t, expected_type) ==
    IF t = NoToken THEN {}
    ELSE IF ~DecodesAs(t, expected_type) THEN {}
    ELSE IF t.jti = NoJti THEN {}
    ELSE IF IsRevoked(t.jti) THEN {}
    ELSE {[jti |-> t.jti, token_type |-> expected_type, user_id |-> t.sub]}

UnchangedButSessions ==
    UNCHANGED <<boq_headers, boq_items, inflight,
                users, organizations, org_members, projects, project_members, tasks, risks, milestones, expenses, documents,
                notifications>>

AuthResp(op, u, code, detail, result, body) ==
    [Resp(op, u, NoHeader, NoOrg, 0, 0, NoUser, code, detail, result)
        EXCEPT !.body = body]

\* POST /auth/login with the email of u (ALLOW_ANY_LOGIN off)
Login(u, password_valid) ==
    LET body == [email |-> u, password_valid |-> password_valid] IN
    IF \/ \A x \in UserRow(u) : x.is_deleted
       \/ ~users[u].is_active
       \/ ~password_valid
    THEN /\ last' = AuthResp("login", NoUser, 401, "Invalid email or password",
                             {}, body)
         /\ UNCHANGED <<revoked_tokens, issued>>
         /\ UnchangedButSessions
    ELSE LET tokens == {create_access_token(u), create_refresh_token(u)} IN
         /\ issued' = issued \cup tokens
         /\ last' = AuthResp("login", u, 200, "", tokens, body)
         /\ UNCHANGED revoked_tokens
         /\ UnchangedButSessions

\* POST /auth/refresh with cookie t
RefreshToken(t) ==
    LET body == [refresh_token |-> t]
        usable == /\ DecodesAs(t, "refresh")
                  /\ t.jti # NoJti
                  /\ ~IsRevoked(t.jti)
                  /\ \E x \in UserRow(t.sub) : x.is_active /\ ~x.is_deleted IN
    IF t = NoToken
    THEN /\ last' = AuthResp("refresh", NoUser, 401, "Refresh token not found",
                             {}, body)
         /\ UNCHANGED <<revoked_tokens, issued>>
         /\ UnchangedButSessions
    ELSE IF ~usable
    THEN /\ last' = AuthResp("refresh", NoUser, 401,
                             "Invalid or expired refresh token", {}, body)
         /\ UNCHANGED <<revoked_tokens, issued>>
         /\ UnchangedButSessions
    ELSE /\ issued' = issued \cup {create_access_token(t.sub)}
         /\ last' = AuthResp("refresh", t.sub, 200, "",
                             {create_access_token(t.sub)}, body)
         /\ UNCHANGED revoked_tokens
         /\ UnchangedButSessions

\* GET /auth/me with Authorization: Bearer t
GetCurrentUserInfo(t) ==
    LET r == AuthenticateActive(t)
        body == [access_token |-> t] IN
    /\ last' = IF r.code # 200
               THEN AuthResp("me", NoUser, r.code, r.detail, {}, body)
               ELSE AuthResp("me", t.sub, 200, "", {}, body)
    /\ UNCHANGED <<revoked_tokens, issued>>
    /\ UnchangedButSessions

\* POST /auth/logout with Authorization: Bearer a and cookie r
Logout(a, r) ==
    /\ revoked_tokens' = revoked_tokens \cup RevokeTokenIfValid(a, "access")
                                        \cup RevokeTokenIfValid(r, "refresh")
    /\ last' = AuthResp("logout", NoUser, 200, "Logged out successfully", {},
                        [access_token |-> a, refresh_token |-> r])
    /\ UNCHANGED issued
    /\ UnchangedButSessions

----------------------------------------------------------------------------
(* Specification of the auth routes: u1 active, u2 and u3 each active,      *)
(* inactive or soft-deleted. Clients present what login and refresh handed  *)
(* out, tokens signed with the same key that carry a jti (login and refresh *)
(* put none in theirs), an expired token, garbage, or nothing.              *)

UserStates == {[is_active |-> TRUE, is_deleted |-> FALSE],
               [is_active |-> FALSE, is_deleted |-> FALSE],
               [is_active |-> TRUE, is_deleted |-> TRUE]}

KeyedTokens == {Token("refresh", "u1", "j1", FALSE),
                Token("access", "u1", "j2", FALSE),
                Token("refresh", "u2", "j3", FALSE),
                Token("refresh", "u1", "j4", TRUE)}

\* the access token login handed to u2 before u2 came to the state the
\* specification starts in
EarlierTokens == {create_access_token("u2")}

Presented == issued \cup KeyedTokens \cup EarlierTokens \cup {NoToken, Garbage}

LoginUsers == {"u1", "u2", UnknownUser}

InitAuth ==
    /\ users \in [Users -> UserStates]
    /\ users["u1"].is_active /\ ~users["u1"].is_deleted
    /\ users["u3"] = users["u2"]
    /\ organizations = [o \in Orgs |-> [is_active |-> TRUE, is_deleted |-> FALSE]]
    /\ org_members = FixtureOrgMembers
    /\ InitEmptyTables

NextAuth ==
    \/ \E u \in LoginUsers, password_valid \in BOOLEAN : Login(u, password_valid)
    \/ \E t \in Presented :
          \/ RefreshToken(t)
          \/ GetCurrentUserInfo(t)
    \/ \E a, r \in Presented : Logout(a, r)

SpecAuth == InitAuth /\ [][NextAuth]_vars

----------------------------------------------------------------------------
(* Specification of the stored rows: the task fixture; on project 1 the     *)
(* callers create and delete a task, a risk, a milestone and an expense,    *)
(* import a bill of quantities and update its items.                        *)

NextStore ==
    \E u \in {"u1", "u2"}, hdr \in {"o1"} :
        \/ CreateTask(u, hdr, 1, "Pending", NoUser, NoUser)
        \/ \E tid \in TaskIds : DeleteTask(u, hdr, 1, tid)
        \/ CreateRisk(u, hdr, 1, "High", "Low", NoUser)
        \/ \E rid \in RiskIds : DeleteRisk(u, hdr, 1, rid)
        \/ CreateMilestone(u, hdr, 1, 3)
        \/ \E mid \in MilestoneIds : DeleteMilestone(u, hdr, 1, mid)
        \/ CreateExpense(u, hdr, 1, 0, <<>>)
        \/ \E eid \in ExpenseIds : DeleteExpense(u, hdr, 1, eid)
        \/ \E rows \in BoqUploads : ImportBoq(u, hdr, 1, rows)
        \/ \E i \in BoqItemIds :
              PatchBoqItem(u, hdr, 1, i, [percent_complete |-> <<50>>])

SpecStore == InitTask /\ [][NextStore]_vars

----------------------------------------------------------------------------
(* Specification of a project's soft delete: the task fixture; the callers  *)
(* soft-delete project 1 and address it and the tasks, risks and milestones *)
(* under it before and after.                                               *)

NextDeleted ==
    \E u \in {"u1", "u2"}, hdr \in {"o1"} :
        \/ DeleteProject(u, hdr, 1)
        \/ GetProject(u, hdr, 1)
        \/ ListTasks(u, hdr, 1)
        \/ CreateTask(u, hdr, 1, "Pending", NoUser, NoUser)
        \/ \E tid \in TaskIds : UpdateTaskStatus(u, hdr, 1, tid, "Completed")
        \/ ListRisks(u, hdr, 1)
        \/ CreateRisk(u, hdr, 1, "High", "Low", NoUser)
        \/ \E rid \in RiskIds :
              \/ UpdateRisk(u, hdr, 1, rid, Unset, "High", Unset, Unset)
              \/ DeleteRisk(u, hdr, 1, rid)
        \/ ListMilestones(u, hdr, 1)
        \/ CreateMilestone(u, hdr, 1, 3)
        \/ \E mid \in MilestoneIds :
              \/ UpdateMilestone(u, hdr, 1, mid, [status |-> "Completed"])
              \/ DeleteMilestone(u, hdr, 1, mid)

SpecDeleted == InitTask /\ [][NextDeleted]_vars

----------------------------------------------------------------------------
(* Handlers that commit twice, run against a store whose second commit      *)
(* raises (connection lost, statement refused): the session is closed with  *)
(* no rollback of what the first commit made durable, and the unhandled     *)
(* exception is answered 500.                                               *)

\* create_project: the project is committed, the commit of the manager's
\* membership row raises
CreateProjectStoreFailure(u, hdr, manager_id) ==
    LET ctx == GetOrgContext(u, hdr)
        op == "create_project"
        pid == Cardinality(projects) + 1 IN
    /\ Cardinality(projects) < MaxProjects
    /\ ctx.code = 200
    /\ ~users[manager_id].is_deleted
    /\ IsActiveOrgMemberUser(ctx.org, manager_id)
    /\ projects' = projects \cup
           {Project(pid, ctx.org, manager_id, u)}
    /\ UNCHANGED project_members
    /\ last' = Resp(op, u, hdr, ctx.org, pid, 0, NoUser, InternalError.code,
                    InternalError.detail, {})
    /\ UnchangedButProjects

\* update_task: the task is committed, the commit of the assignee's
\* notification raises
UpdateTaskStoreFailure(u, hdr, pid, tid, assignee_id) ==
    LET g == TaskGate(u, hdr, pid, "can_edit_tasks")
        op == "update_task" IN
    /\ g.code = 200
    /\ FindTask(g.org, pid, tid) # {}
    /\ IsActiveOrgMemberOrNone(g.org, assignee_id)
    /\ LET task == CHOOSE t \in FindTask(g.org, pid, tid) : TRUE IN
       /\ assignee_id \notin {NoUser, task.assignee_id, u}
       /\ tasks' = (tasks \ {task}) \cup {[task EXCEPT !.assignee_id = assignee_id]}
       /\ UNCHANGED notifications
       /\ last' = Resp(op, u, hdr, g.org, pid, tid, NoUser, InternalError.code,
                       InternalError.detail, {})
       /\ UnchangedButTasks

----------------------------------------------------------------------------
(* Specification of the writes of one request: project 1 of o1 managed by   *)
(* u1 with one task; u1 and u2 create projects and reassign the task, and   *)
(* the store may refuse the second commit of a request.                     *)

InitTxn ==
    /\ InitTenants
    /\ projects = {Project(1, "o1", "u1", "u1")}
    /\ project_members = {MemberRow(1, "u1", Caps)}
    /\ tasks = {TaskRow(1, "o1", 1, "Pending", 0)}
    /\ risks = {}
    /\ milestones = {}
    /\ expenses = {}
    /\ documents = {}
    /\ notifications = {}
    /\ InitNoSessions
    /\ last = NoRequest

NextTxn ==
    \E u \in {"u1", "u2"}, hdr \in Orgs :
        \/ \E manager_id \in Users :
              \/ CreateProject(u, hdr, manager_id, DefaultTerms)
              \/ CreateProjectStoreFailure(u, hdr, manager_id)
        \/ \E tid \in TaskIds, assignee_id \in {NoUser, "u2", "u3"} :
              \/ UpdateTask(u, hdr, 1, tid, Unset, <<>>, assignee_id)
              \/ UpdateTaskStoreFailure(u, hdr, 1, tid, assignee_id)
        \/ ListTasks(u, hdr, 1)

SpecTxn == InitTxn /\ [][NextTxn]_vars

----------------------------------------------------------------------------
(* Organization resolver properties *)

CallerUsable(u) == u \in Users /\ users[u].is_active /\ ~users[u].is_deleted

HasActiveOrgMembership(u, o) ==
    \E m \in org_members :
        m.user_id = u /\ m.organization_id = o /\ m.status = "Active"

ExplicitSelector(r) == r.op # "none" /\ r.hdr \in Orgs \cup {UnknownOrg}

\* C7: with an explicit selector the organization is returned only when an
\* Active membership for (selector, principal) exists and the organization is
\* active and not deleted; a missing, Invited or Suspended membership answers
\* 403 whatever the state of the organization (the membership check comes
\* first), and an Active membership on an inactive or deleted organization
\* answers 404.
C7_ExplicitSelector ==
    (ExplicitSelector(last) /\ CallerUsable(last.user)) =>
        /\ (last.code = 200) <=>
              (HasActiveOrgMembership(last.user, last.hdr)
                 /\ OrganizationUsable(last.hdr))
        /\ last.code = 200 => last.org = last.hdr
        /\ ~HasActiveOrgMembership(last.user, last.hdr) => last.code = 403
        /\ (HasActiveOrgMembership(last.user, last.hdr)
              /\ ~OrganizationUsable(last.hdr)) => last.code = 404

\* C7 witness: a Suspended or Invited member selects an organization that is
\* itself inactive or deleted and is answered 403, not 404.
C7_Witness ==
    /\ ExplicitSelector(last)
    /\ last.hdr \in Orgs
    /\ \E m \in org_members :
          /\ m.user_id = last.user
          /\ m.organization_id = last.hdr
          /\ m.status \in {"Invited", "Suspended"}
    /\ ~OrganizationUsable(last.hdr)
    /\ last.code = 403

\* C8: without a selector, zero Active memberships answer 403, exactly one
\* auto-selects that organization (the request then continues exactly as if
\* that organization had been named: 200 with it, or 404 when it is inactive
\* or deleted), and two or more answer 400; no organization is ever chosen
\* among several.
C8_NoSelector ==
    (last.op # "none" /\ last.hdr = NoHeader /\ CallerUsable(last.user)) =>
        LET n == Cardinality(ActiveOrgMemberships(last.user)) IN
        /\ n = 0 => last.code = 403
        /\ n = 1 =>
              LET o == (CHOOSE m \in ActiveOrgMemberships(last.user) : TRUE).organization_id IN
              /\ OrganizationUsable(o) => (last.code = 200 /\ last.org = o)
              /\ ~OrganizationUsable(o) => last.code = 404
        /\ n >= 2 => (last.code = 400 /\ last.org = NoOrg)

\* C8 witness: a principal with two Active memberships sends no selector and
\* is answered 400.
C8_Witness ==
    /\ last.op # "none"
    /\ last.hdr = NoHeader
    /\ Cardinality(ActiveOrgMemberships(last.user)) = 2
    /\ \A m \in ActiveOrgMemberships(last.user) : OrganizationUsable(m.organization_id)
    /\ last.code = 400

----------------------------------------------------------------------------
(* Capability check properties *)

\* The capability each gated handler asks for
RequiredCapability(op) ==
    IF op \in {"list_tasks", "get_task"} THEN "can_view_project" ELSE "can_edit_tasks"

TaskMutations == {"create_task", "update_task", "update_task_status",
                  "update_task_progress", "delete_task"}

GatedOps == TaskMutations \cup {"list_tasks", "get_task"}

\* Request r is a gated one that reaches the capability check: its
\* organization resolved and its project is found there.
ReachesCapabilityCheck(r) ==
    /\ r.op \in GatedOps
    /\ r.org \in Orgs
    /\ \E p \in projects :
         p.id = r.project_id /\ p.organization_id = r.org /\ ~p.is_deleted

ProjectOf(r) ==
    CHOOSE p \in projects : p.id = r.project_id /\ p.organization_id = r.org

ByManagerOrCreator(r) ==
    ProjectOf(r).manager_id = r.user \/ ProjectOf(r).created_by = r.user

RowsOf(r) ==
    {m \in project_members : m.project_id = r.project_id /\ m.user_id = r.user}

\* C3: the capability check lets the project's manager and its creator
\* through for every capability whether or not a membership row exists for
\* them; for anybody else it is refused with 403 "not a member" when no
\* membership row exists, refused with 403 when the row's flag for the
\* capability is false, and passed exactly when the row exists with the flag
\* true.
C3_EnsureProjectPermission ==
    ReachesCapabilityCheck(last) =>
        IF ByManagerOrCreator(last) THEN last.code # 403
        ELSE IF RowsOf(last) = {}
        THEN last.code = 403 /\ last.detail = "You are not a member of this project"
        ELSE IF \E m \in RowsOf(last) : RequiredCapability(last.op) \in m.flags
        THEN last.code # 403
        ELSE last.code = 403 /\ last.detail # "You are not a member of this project"

\* A manager who is not the creator and has no membership row changed a task.
C3_Witness ==
    /\ ReachesCapabilityCheck(last)
    /\ last.op = "update_task_status"
    /\ last.code = 200
    /\ ProjectOf(last).manager_id = last.user
    /\ ProjectOf(last).created_by # last.user
    /\ RowsOf(last) = {}

----------------------------------------------------------------------------
(* Task gating properties *)

CanEditTasks(r) == \E m \in RowsOf(r) : "can_edit_tasks" \in m.flags

\* Request r addresses a visible task of its project, or creates one, and
\* names no assignee outside the organization.
TaskRequestWellFormed(r) ==
    IF r.op = "create_task" THEN r.target_user # UnknownUser
    ELSE \E t \in tasks : /\ t.id = r.entity_id
                          /\ t.project_id = r.project_id
                          /\ t.organization_id = r.org
                          /\ ~t.is_deleted

\* Request r is a task mutation by an explicit member of its project who is
\* neither its manager nor its creator.
MutationByPlainMember(r) ==
    /\ ReachesCapabilityCheck(r)
    /\ r.op \in TaskMutations
    /\ ~ByManagerOrCreator(r)
    /\ RowsOf(r) # {}

\* C6: a task-mutating call (create, update, status patch, progress patch,
\* delete) by a project member who is neither manager nor creator and whose
\* can_edit_tasks flag is false is refused with 403 and leaves every task as
\* it was; once the flag is true the same call is no longer refused, and it
\* succeeds whenever its task exists and its body is valid.
C6_CanEditTasksGate ==
    [][MutationByPlainMember(last') =>
          IF CanEditTasks(last')
          THEN /\ last'.code # 403
               /\ TaskRequestWellFormed(last') => last'.code \in {200, 201, 204}
          ELSE last'.code = 403 /\ tasks' = tasks]_vars

\* Member u2, whose flag was false at first, completed a task after the
\* manager set the flag.
C6_Witness ==
    /\ MutationByPlainMember(last)
    /\ last.op = "update_task_status"
    /\ last.user = "u2"
    /\ CanEditTasks(last)
    /\ last.code = 200
    /\ \E t \in tasks : t.id = last.entity_id /\ t.status = "Completed"

----------------------------------------------------------------------------
(* Specification of the receipt link: the expense fixture with three        *)
(* documents -- 1 in o1/project 1, 2 in o2/project 2, 3 in o1/project 1 and *)
(* soft-deleted; id 4 is the id of no document, 0 an absent or null field.  *)

DocumentRow(did, org, pid, deleted) ==
    [id |-> did, organization_id |-> org, project_id |-> pid,
     is_deleted |-> deleted]

ReceiptIds == 0..4

InitReceipt ==
    /\ InitTenants
    /\ projects = {Project(1, "o1", "u1", "u1"), Project(2, "o2", "u3", "u3")}
    /\ project_members =
         {MemberRow(1, "u1", Caps),
          MemberRow(1, "u2", {"can_view_project", "can_approve_expenses"}),
          MemberRow(1, "u3", {"can_view_project", "can_manage_expenses"}),
          MemberRow(2, "u3", Caps)}
    /\ tasks = {}
    /\ risks = {}
    /\ milestones = {}
    /\ expenses = {}
    /\ documents = {DocumentRow(1, "o1", 1, FALSE), DocumentRow(2, "o2", 2, FALSE),
                    DocumentRow(3, "o1", 1, TRUE)}
    /\ notifications = {}
    /\ InitNoSessions
    /\ last = NoRequest

NextReceipt ==
    \/ \E u \in ExpenseCallers, hdr \in Orgs, pid \in {1, 2} :
          \/ \E receipt \in ReceiptIds : CreateExpense(u, hdr, pid, receipt, <<>>)
          \/ \E eid \in ExpenseIds, receipt \in ReceiptIds :
                UpdateExpense(u, hdr, pid, eid, [receipt_document_id |-> receipt])
    \/ \E eid \in ExpenseIds : ApproveExpense("u1", "o1", 1, eid, <<>>)

SpecReceipt == InitReceipt /\ [][NextReceipt]_vars

----------------------------------------------------------------------------
(* Specification of overlapping decisions: the expense fixture with one     *)
(* Pending expense logged by u3; u1 (manager) and u2 (approver) decide it   *)
(* from two processes, u3 holds no approval capability.                     *)

ExpenseRow(eid, org, pid, logged_by) ==
    [id |-> eid, organization_id |-> org, project_id |-> pid,
     status |-> "Pending", logged_by_id |-> logged_by, approved_by_id |-> NoUser,
     receipt_document_id |-> 0, notes |-> <<>>, is_deleted |-> FALSE]

InitRace ==
    /\ InitTenants
    /\ projects = {Project(1, "o1", "u1", "u1"), Project(2, "o2", "u3", "u3")}
    /\ project_members =
         {MemberRow(1, "u1", Caps),
          MemberRow(1, "u2", {"can_view_project", "can_approve_expenses"}),
          MemberRow(1, "u3", {"can_view_project", "can_manage_expenses"}),
          MemberRow(2, "u3", Caps)}
    /\ tasks = {}
    /\ risks = {}
    /\ milestones = {}
    /\ expenses = {ExpenseRow(1, "o1", 1, "u3")}
    /\ documents = {}
    /\ notifications = {}
    /\ InitNoSessions
    /\ last = NoRequest

NextRace ==
    \/ \E u \in Users, hdr \in Orgs, eid \in ExpenseIds :
          \/ \E text \in {<<>>, <<"ok">>} :
                DecisionRead("approve_expense", u, hdr, 1, eid, text)
          \/ DecisionRead("reject_expense", u, hdr, 1, eid, <<"no">>)
    \/ \E q \in inflight : DecisionCommit(q)

SpecRace == InitRace /\ [][NextRace]_vars

----------------------------------------------------------------------------
(* Tenant isolation and project access properties *)

tables == <<users, organizations, org_members, projects, project_members,
            tasks, risks, milestones, expenses, documents, notifications>>

\* Request r was resolved into one organization and names a project of
\* another one.
CrossTenantRequest(r) ==
    /\ r.org \in Orgs
    /\ \E p \in projects : p.id = r.project_id /\ p.organization_id # r.org

\* C1: a request resolved into organization O1 that names a project of
\* another organization O2 is answered 404 (never 403), returns nothing and
\* changes no table.
C1_TenantIsolation ==
    [][CrossTenantRequest(last') =>
          last'.code = 404 /\ last'.result = {} /\ tables' = tables]_vars

\* User u is an active member of the project's organization with no way into
\* the project: not its manager, not its creator, not an Org_Admin, and
\* without a membership row.
Outsider(u, p) ==
    /\ IsActiveOrgMemberUser(p.organization_id, u)
    /\ ~IsOrgAdmin(p.organization_id, u)
    /\ ~IsProjectOwnerOrManager(p, u)
    /\ GetProjectMembership(p.id, u) = {}

\* User u passes the capability check of project pid for some capability.
PassesSomeCapability(u, pid) ==
    \E p \in projects, c \in Caps :
        p.id = pid /\ ~p.is_deleted /\ EnsureProjectPermission(p, u, c).code = 200

\* C2: a request made by an outsider of a project never leaves that caller
\* able to pass the project's capability check, nor holding a membership
\* row of it.
C2_NoSelfEscalation ==
    [][\A p \in projects, u \in Users :
          last'.user = u /\ Outsider(u, p) /\ ~p.is_deleted =>
              /\ ~PassesSomeCapability(u, p.id)'
              /\ GetProjectMembership(p.id, u)' = {}]_vars

\* Request r reads, updates or deletes a project that is found in the
\* caller's organization.
ProjectRequest(r) ==
    /\ r.op \in {"get_project", "update_project", "delete_project"}
    /\ r.org \in Orgs
    /\ GetProjectOr404(r.org, r.project_id) # {}

\* C5: get, update and soft-delete of a project by an active organization
\* member who is not its manager, not its creator and holds no membership
\* row are refused with 403 and leave the project as it was.
C5_ProjectCapability ==
    [][ProjectRequest(last') =>
          \A p \in GetProjectOr404(last'.org, last'.project_id) :
              ~IsProjectOwnerOrManager(p, last'.user)
              /\ GetProjectMembership(p.id, last'.user) = {}
              => last'.code = 403 /\ projects' = projects]_vars

----------------------------------------------------------------------------
(* Risk and milestone gating properties *)

RiskOps == {"list_risks", "create_risk", "update_risk", "delete_risk"}
MilestoneOps == {"list_milestones", "create_milestone", "update_milestone",
                 "delete_milestone"}

\* The capability a risk or milestone operation would require
RegisterCapability(op) ==
    IF op \in {"list_risks", "list_milestones"} THEN "can_view_project"
    ELSE IF op \in RiskOps THEN "can_manage_risks"
    ELSE "can_manage_milestones"

\* Request r is a risk or milestone operation on a project found in the
\* caller's organization, by a caller who is neither its manager nor its
\* creator and has no membership row, or a row without the capability.
UnauthorizedRegisterRequest(r) ==
    /\ r.op \in RiskOps \cup MilestoneOps
    /\ r.org \in Orgs
    /\ \E p \in GetProjectOr404(r.org, r.project_id) :
          /\ ~IsProjectOwnerOrManager(p, r.user)
          /\ \A m \in GetProjectMembership(p.id, r.user) :
                RegisterCapability(r.op) \notin m.flags

\* C4: a risk or milestone operation by an organization member who is
\* neither manager nor creator of the project and has no membership row, or
\* whose row lacks the capability of the operation, is refused with 403 and
\* changes no risk and no milestone.
C4_RegisterGate ==
    [][UnauthorizedRegisterRequest(last') =>
          last'.code = 403 /\ risks' = risks /\ milestones' = milestones]_vars

----------------------------------------------------------------------------
(* Expense state machine properties *)

\* User u holds capability c on project p: as manager or creator, or by a
\* membership row whose flag c is true.
HoldsCapability(p, u, c) ==
    \/ p.manager_id = u
    \/ p.created_by = u
    \/ \E m \in project_members :
          m.project_id = p.id /\ m.user_id = u /\ c \in m.flags

ExpenseCapability(op) ==
    IF op \in {"approve_expense", "reject_expense"} THEN "can_approve_expenses"
    ELSE "can_manage_expenses"

\* The expenses request r addresses: visible ones of its project, in its
\* organization.
AddressedExpenses(r) ==
    {e \in expenses : /\ e.id = r.entity_id
                      /\ e.project_id = r.project_id
                      /\ e.organization_id = r.org
                      /\ ~e.is_deleted}

\* Request r reaches the expense handlers' capability check, and the caller
\* holds (holds = TRUE) or lacks the capability of the operation.
ExpenseRequestBy(r, holds) ==
    /\ r.org \in Orgs
    /\ \E p \in projects :
          /\ p.id = r.project_id
          /\ p.organization_id = r.org
          /\ ~p.is_deleted
          /\ HoldsCapability(p, r.user, ExpenseCapability(r.op)) = holds

\* C9: an expense is created Pending with no approver; once it is Approved
\* or Rejected no step changes its status or its approved_by_id, which is
\* set only by the step that decides it; and an approve, reject or PUT that
\* an authorised caller addresses to a decided expense is answered 400 and
\* changes nothing.
C9_ExpenseMonotonic ==
    [][/\ \A e2 \in expenses' :
             (\A e \in expenses : e.id # e2.id) =>
                 e2.status = "Pending" /\ e2.approved_by_id = NoUser
       /\ \A e \in expenses : \E e2 \in expenses' :
             /\ e2.id = e.id
             /\ e.status # "Pending" =>
                    e2.status = e.status /\ e2.approved_by_id = e.approved_by_id
             /\ e2.approved_by_id # e.approved_by_id =>
                    e.status = "Pending" /\ e2.status \in {"Approved", "Rejected"}
       /\ /\ last'.op \in {"approve_expense", "reject_expense", "update_expense"}
          /\ ExpenseRequestBy(last', TRUE)
          /\ \E e \in AddressedExpenses(last') : e.status # "Pending"
          => last'.code = 400 /\ expenses' = expenses]_vars

\* A PUT by an authorised member on an expense somebody else approved was
\* answered 400.
C9_Witness ==
    /\ last.op = "update_expense"
    /\ last.code = 400
    /\ \E e \in AddressedExpenses(last) :
          /\ e.status = "Approved"
          /\ e.approved_by_id \notin {NoUser, last.user}

\* What approve and reject do apart from the notes: without the capability
\* the call is refused with 403, on an expense that is not Pending it is
\* answered 400, both leaving the expenses as they were; a successful call
\* acts on a Pending expense and records the caller as approved_by_id.
DecisionStep ==
    /\ ExpenseRequestBy(last', FALSE) => last'.code = 403 /\ expenses' = expenses
    /\ /\ ExpenseRequestBy(last', TRUE)
       /\ \E e \in AddressedExpenses(last') : e.status # "Pending"
       => last'.code = 400 /\ expenses' = expenses
    /\ last'.code = 200 =>
          /\ ExpenseRequestBy(last', TRUE)
          /\ \E e \in AddressedExpenses(last') : \E e2 \in expenses' :
                /\ e.status = "Pending"
                /\ e2.id = e.id
                /\ e2.status = (IF last'.op = "approve_expense"
                                THEN "Approved" ELSE "Rejected")
                /\ e2.approved_by_id = last'.user

\* The notes of the expense the successful request r addressed, before and
\* after the step, as a pair.
NotesStep(r) ==
    {<<e.notes, e2.notes>> : e \in AddressedExpenses(r),
                             e2 \in {x \in expenses' : x.id = r.entity_id}}

\* C10 as stated: approve and reject require can_approve_expenses and a
\* Pending expense (400 otherwise), record the caller as approved_by_id,
\* and every successful transition appends a note to the expense's notes.
C10_EveryTransitionAppends ==
    [][last'.op \in {"approve_expense", "reject_expense"} =>
          /\ DecisionStep
          /\ last'.code = 200 =>
                \A n \in NotesStep(last') :
                    Len(n[2]) = Len(n[1]) + 1 /\ SubSeq(n[2], 1, Len(n[1])) = n[1]]_vars

\* C10: approve and reject require can_approve_expenses and a Pending
\* expense (400 otherwise) and record the caller as approved_by_id; reject
\* appends the rejection reason to the notes, approve appends the approval
\* note when the request carries one and leaves the notes as they were when
\* it carries none.
C10_ApproveReject ==
    [][last'.op \in {"approve_expense", "reject_expense"} =>
          /\ DecisionStep
          /\ last'.code = 200 =>
                \A n \in NotesStep(last') :
                    n[2] = IF last'.op = "reject_expense"
                           THEN Append(n[1], <<"Rejection reason", last'.body[1]>>)
                           ELSE IF last'.body = <<>> THEN n[1]
                           ELSE Append(n[1], <<"Approval notes", last'.body[1]>>)]_vars

\* Member u2 approved, without a note, an expense that member u3 logged and
\* edited.
C10_Witness ==
    /\ last.op = "approve_expense"
    /\ last.code = 200
    /\ last.body = <<>>
    /\ last.user = "u2"
    /\ \E e \in expenses :
          /\ e.id = last.entity_id
          /\ e.status = "Approved"
          /\ e.approved_by_id = last.user
          /\ e.logged_by_id # last.user
          /\ e.notes = <<"edited">>

----------------------------------------------------------------------------
(* Overlapping decisions on one expense *)

\* C11: of two decisions on the same Pending expense that overlap, one takes
\* effect -- every approve or reject that commits and answers 200 finds the
\* expense still Pending, so a decided expense keeps the status and the
\* approved_by_id of the single winner.
C11_SingleWinner ==
    [][\A q \in inflight \ inflight' :
          last'.code = 200 =>
              \E e \in expenses : e.id = q.entity_id /\ e.status = "Pending"]_vars

----------------------------------------------------------------------------
(* Receipt documents *)

\* The documents a receipt_document_id of request r may reference: existing,
\* not deleted, of the organization and the project of the request.
ReceiptCandidates(r) ==
    {d \in documents : /\ d.id = r.body.receipt_document_id
                       /\ d.organization_id = r.org
                       /\ d.project_id = r.project_id
                       /\ ~d.is_deleted}

CarriesReceipt(r) ==
    /\ r.op \in {"create_expense", "update_expense"}
    /\ "receipt_document_id" \in DOMAIN r.body

\* C12: a create or update that succeeds with a receipt_document_id stores a
\* reference to an existing, non-deleted document of the same organization
\* and project (or no reference); one whose receipt_document_id references
\* no such document changes no expense and, once the caller is authorised
\* and the expense is editable, is answered 400.
C12_ReceiptValidated ==
    [][CarriesReceipt(last') =>
          LET rid == last'.body.receipt_document_id
              dangling == rid # 0 /\ ReceiptCandidates(last') = {} IN
          /\ last'.code \in {200, 201} =>
                 /\ ~dangling
                 /\ \E e \in expenses' : /\ e.id = last'.entity_id
                                         /\ e.receipt_document_id = rid
          /\ dangling => /\ expenses' = expenses
                         /\ last'.code \in {400, 401, 403, 404}
          /\ /\ dangling
             /\ ExpenseRequestBy(last', TRUE)
             /\ last'.op = "update_expense" =>
                    \E e \in AddressedExpenses(last') : e.status = "Pending"
             => last'.code = 400 /\ last'.detail = ReceiptInvalid.detail]_vars

\* A PUT by an authorised caller that names a soft-deleted document of the
\* project, or a document of another organization, was answered 400.
C12_Witness ==
    /\ last.op = "update_expense"
    /\ last.code = 400
    /\ last.detail = ReceiptInvalid.detail
    /\ \E e \in AddressedExpenses(last) : e.status = "Pending"
    /\ \E d \in documents :
          /\ d.id = last.body.receipt_document_id
          /\ d.is_deleted \/ d.organization_id # last.org

----------------------------------------------------------------------------
(* Token revocation *)

\* The revocation store holds a row for the jti of token t
HasRevocationRow(t) == \E x \in revoked_tokens : x.jti = t.jti

\* C13: a revocation is final -- no step removes a row of the revocation
\* store, and a refresh that presents a token whose jti has a row there is
\* answered 401 and hands out no access token, also when the token decodes,
\* is unexpired and names an active user.
C13_RevocationFinality ==
    [][/\ revoked_tokens \subseteq revoked_tokens'
       /\ /\ last'.op = "refresh"
          /\ HasRevocationRow(last'.body.refresh_token)
          => /\ last'.code = 401
             /\ last'.result = {}
             /\ issued' = issued]_vars

\* A refresh presented an unexpired refresh token of the active user u1 whose
\* jti a logout had revoked, and was answered 401.
C13_Witness ==
    /\ last.op = "refresh"
    /\ last.code = 401
    /\ DecodesAs(last.body.refresh_token, "refresh")
    /\ HasRevocationRow(last.body.refresh_token)
    /\ \E x \in UserRow(last.body.refresh_token.sub) :
          x.is_active /\ ~x.is_deleted

C15_LogoutRevokesBoth ==
    [][/\ last'.op = "logout"
       /\ last'.body.access_token \in issued
       /\ last'.body.refresh_token \in issued
       /\ DecodesAs(last'.body.access_token, "access")
       /\ DecodesAs(last'.body.refresh_token, "refresh")
       => /\ last'.code = 200
          /\ \E x \in revoked_tokens' :
                x.token_type = "access" /\ x.jti = last'.body.access_token.jti
          /\ \E x \in revoked_tokens' :
                x.token_type = "refresh" /\ x.jti = last'.body.refresh_token.jti]_vars

\* C16: a refresh that presents a refresh token login issued, unexpired, not
\* revoked, of an existing, active, non-deleted user, is answered 200 with a
\* new access token of that user.
C16_RefreshHonoured ==
    [][/\ last'.op = "refresh"
       /\ last'.body.refresh_token \in issued
       /\ DecodesAs(last'.body.refresh_token, "refresh")
       /\ ~HasRevocationRow(last'.body.refresh_token)
       /\ \E x \in UserRow(last'.body.refresh_token.sub) :
             x.is_active /\ ~x.is_deleted
       => /\ last'.code = 200
          /\ \E a \in last'.result :
                a.type = "access" /\ a.sub = last'.body.refresh_token.sub]_vars

\* C17: an authenticated request whose token decodes as an access token and
\* names a user that does not exist, is soft-deleted or is inactive is
\* answered 401.
C17_UnusablePrincipalRejected ==
    /\ last.op = "me"
    /\ DecodesAs(last.body.access_token, "access")
    /\ ~\E x \in UserRow(last.body.access_token.sub) :
           x.is_active /\ ~x.is_deleted
    => last.code = 401

----------------------------------------------------------------------------
(* Soft delete *)

\* Every row of table t before the step is a row of table t2 after it
RowsKept(t, t2) == \A x \in t : \E y \in t2 : y.id = x.id

\* C18: no step physically removes a row of a project-scoped resource --
\* every task, expense, risk, milestone, document, BOQ header and BOQ item
\* stored before a request is still stored after it.
C18_NoPhysicalRemoval ==
    [][/\ RowsKept(tasks, tasks')
       /\ RowsKept(expenses, expenses')
       /\ RowsKept(risks, risks')
       /\ RowsKept(milestones, milestones')
       /\ RowsKept(documents, documents')
       /\ RowsKept(boq_headers, boq_headers')
       /\ RowsKept(boq_items, boq_items')]_vars

\* Operations addressed to a project or to an entity under it
UnderProjectOps ==
    GatedOps \cup RiskOps \cup MilestoneOps
        \cup {"get_project", "update_project", "delete_project"}

\* C19: once a project is soft-deleted, a request that a caller resolved
\* into the project's organization addresses to it, or to a task, risk or
\* milestone under it, is answered 404 and changes no table.
C19_DeletedProjectHidden ==
    [][/\ last'.op \in UnderProjectOps
       /\ \E p \in projects : /\ p.id = last'.project_id
                               /\ p.organization_id = last'.org
                               /\ p.is_deleted
       => last'.code = 404 /\ tables' = tables]_vars

----------------------------------------------------------------------------
(* Writes of one request *)

\* C20: the writes of a request are one transaction -- a request that is
\* answered with an error leaves none of its writes in the store.
C20_ErrorLeavesNoWrite ==
    [][last'.code >= 400 => tables' = tables]_vars

----------------------------------------------------------------------------
(* Specification of the risk score: callers of both organizations create    *)
(* risks and rewrite either level with every value the request schema (a    *)
(* plain string, or null on update) lets through.                           *)

CreateLevels == RiskLevels \cup {"Extreme"}
UpdateLevels == RiskLevels \cup {Unset, Null, "Extreme"}

ScoreCallers == {"u1", "u3"}

NextScore ==
    \E u \in ScoreCallers, hdr \in Orgs :
        \/ \E probability \in CreateLevels, impact \in CreateLevels :
              CreateRisk(u, hdr, 1, probability, impact, NoUser)
        \/ \E rid \in RiskIds, probability \in UpdateLevels, impact \in UpdateLevels :
              UpdateRisk(u, hdr, 1, rid, probability, impact, Unset, Unset)

SpecScore == InitTask /\ [][NextScore]_vars

RankOrder == <<"Very_Low", "Low", "Medium", "High", "Very_High">>

Rank(level) == CHOOSE n \in 1..5 : RankOrder[n] = level

----------------------------------------------------------------------------
(* Specification of the bill of quantities of project 1: the manager        *)
(* imports uploads and patches the weight, completion and parent of items,  *)
(* and the manager and a viewer read the summary.                           *)

BoqPatches(item_id) ==
    {[weight_out_of_10 |-> w] : w \in {<<>>, <<0>>, <<5>>, <<10>>}}
    \cup {[percent_complete |-> c] : c \in {<<>>, <<50>>, <<100>>}}
    \cup {[parent_item_id |-> q] : q \in {0, item_id, MaxBoqItems + 1}}

NextBoq ==
    \/ \E rows \in BoqUploads : ImportBoq("u1", "o1", 1, rows)
    \/ \E i \in BoqItemIds :
          \E body \in BoqPatches(i) : PatchBoqItem("u1", "o1", 1, i, body)
    \/ \E u \in {"u1", "u2"} : GetBoqSummary(u, "o1", 1)

SpecBoq == InitTask /\ [][NextBoq]_vars

\* Items of a header that no item of the header names as its parent
LeavesOf(h) ==
    LET items == {x \in boq_items : x.header_id = h.id} IN
    {x \in items : ~\E y \in items : y.parent_item_id = x.id}

RECURSIVE SumWeight(_)
SumWeight(S) ==
    IF S = {} THEN 0
    ELSE LET x == CHOOSE y \in S : TRUE IN x.weight_out_of_10 + SumWeight(S \ {x})

RECURSIVE SumPercent(_)
SumPercent(S) ==
    IF S = {} THEN 0
    ELSE LET x == CHOOSE y \in S : TRUE IN x.percent_complete + SumPercent(S \ {x})

RECURSIVE SumWeightedPercent(_)
SumWeightedPercent(S) ==
    IF S = {} THEN 0
    ELSE LET x == CHOOSE y \in S : TRUE IN
         x.weight_out_of_10 * x.percent_complete + SumWeightedPercent(S \ {x})

\* q is the number a / b
Equals(q, a, b) == q.den > 0 /\ q.num * b = a * q.den

\* C22: the weighted completion of a header is taken over its leaves only:
\* 100 * sum(weight/10 * percent/100) / sum(weight/10) when some leaf has a
\* weight, the plain mean of percent_complete when every leaf weight is 0,
\* and 0 with no leaf; leaves (10, 100) and (0, 50) give 100.
C22_WeightedCompletion ==
    \A h \in boq_headers :
        LET items == {x \in boq_items : x.header_id = h.id}
            leaves == LeavesOf(h)
            completion == _compute_weighted_completion(items) IN
        /\ leaves = {} => Equals(completion, 0, 1)
        /\ (leaves # {} /\ \A x \in leaves : x.weight_out_of_10 = 0)
              => Equals(completion, SumPercent(leaves), Cardinality(leaves))
        /\ (\E x \in leaves : x.weight_out_of_10 # 0)
              => Equals(completion,
                        100 * SumWeightedPercent(leaves), 100 * SumWeight(leaves))
        /\ ({<<x.weight_out_of_10, x.percent_complete>> : x \in leaves}
               = {<<10, 100>>, <<0, 50>>})
              => Equals(completion, 100, 1)
        /\ (last.op = "get_boq_summary" /\ last.code = 200
                /\ last.entity_id = h.id /\ items # {})
              => last.result.project_weighted_completion_percent = Round2(completion)

\* The summary answers 100.00 for the two leaves (10, 100) and (0, 50).
C22_Witness ==
    /\ last.op = "get_boq_summary"
    /\ last.code = 200
    /\ last.result.total_items = 2
    /\ last.result.project_weighted_completion_percent = 10000
    /\ \E h \in boq_headers :
          /\ h.id = last.entity_id
          /\ {<<x.weight_out_of_10, x.percent_complete>> : x \in LeavesOf(h)}
                = {<<10, 100>>, <<0, 50>>}

\* Some items of the set are each the child of an item of the set: following
\* parent links from any of them never ends
HasParentCycle(items) ==
    \E S \in SUBSET items :
        /\ S # {}
        /\ \A x \in S : x.parent_item_id \in {y.id : y \in S}

\* C23: the items of every header form a tree -- a parent is another item of
\* the same header, parent links never cycle, and a header that has an item
\* has a leaf.
C23_ItemTree ==
    \A h \in boq_headers :
        LET items == {x \in boq_items : x.header_id = h.id} IN
        /\ \A x \in items :
              x.parent_item_id # 0 =>
                  /\ x.parent_item_id # x.id
                  /\ x.parent_item_id \in {y.id : y \in items}
        /\ ~HasParentCycle(items)
        /\ items # {} => LeavesOf(h) # {}

----------------------------------------------------------------------------
(* add_project_member in two round trips, so that requests served by        *)
(* different workers can overlap: the checks with the SELECT of an existing *)
(* row, then the INSERT. The model of project_members declares no unique    *)
(* constraint; the first migration declares uq_project_user. A database     *)
(* made from the migrations refuses the second row of a pair and the        *)
(* unhandled IntegrityError is answered 500; a database made from the       *)
(* models by create_all takes it.                                           *)

AddMemberRead(u, hdr, pid, target, flags) ==
    LET ctx == GetOrgContext(u, hdr)
        op == "add_project_member" IN
    /\ Cardinality(inflight) < MaxInflight
    /\ \A q \in inflight : q.user # u
    /\ IF ctx.code # 200 THEN FailFor(op, u, hdr, NoOrg, pid, 0, target, ctx)
       ELSE IF GetProjectOr404(ctx.org, pid) = {}
       THEN FailFor(op, u, hdr, ctx.org, pid, 0, target, Err(404, "Project not found"))
       ELSE LET project == CHOOSE p \in GetProjectOr404(ctx.org, pid) : TRUE IN
            IF ~CanManageProjectMembers(project, ctx.org, u)
            THEN FailFor(op, u, hdr, ctx.org, pid, 0, target, ManageMembersDenied)
            ELSE IF ~IsActiveOrgMemberUser(ctx.org, target)
            THEN FailFor(op, u, hdr, ctx.org, pid, 0, target,
                         Err(400, "User must be an active member of this organization"))
            ELSE IF GetProjectMembership(pid, target) # {}
            THEN FailFor(op, u, hdr, ctx.org, pid, 0, target,
                         Err(400, "User is already a project member"))
            ELSE /\ inflight' = inflight \cup
                        {[op |-> op, user |-> u, hdr |-> hdr, org |-> ctx.org,
                          project_id |-> pid, entity_id |-> 0, text |-> <<>>,
                          loaded |-> [project_id |-> pid, user_id |-> target,
                                      flags |-> flags]]}
                 /\ UNCHANGED <<boq_headers, boq_items, revoked_tokens, issued,
                                users, organizations, org_members, projects,
                                project_members, tasks, risks, milestones,
                                expenses, documents, notifications, last>>

AddMemberCommit(q) ==
    LET member == q.loaded
        Answer(code, detail) ==
            Resp(q.op, q.user, q.hdr, q.org, q.project_id, 0, member.user_id,
                 code, detail, {}) IN
    /\ q \in inflight
    /\ inflight' = inflight \ {q}
    /\ \/ /\ project_members' = project_members \cup {member}
          /\ last' = Answer(201, "")
       \/ /\ GetProjectMembership(member.project_id, member.user_id) # {}
          /\ project_members' = project_members
          /\ last' = Answer(InternalError.code, InternalError.detail)
    /\ UNCHANGED <<boq_headers, boq_items, revoked_tokens, issued,
                   users, organizations, org_members, projects, tasks, risks,
                   milestones, expenses, documents, notifications>>

MemberFlagSets == {{"can_view_project"}, Caps}

NextMemberRace ==
    \/ \E u \in {"u1", "u3"}, hdr \in Orgs, pid \in ProjectIds, target \in {"u2", "u3"},
          flags \in MemberFlagSets :
          AddMemberRead(u, hdr, pid, target, flags)
    \/ \E q \in inflight : AddMemberCommit(q)

SpecMemberRace == InitProject /\ [][NextMemberRace]_vars

\* Request r was turned away before the handler looked for an existing row
RefusedBeforeLookup(r) ==
    \/ r.code \in {401, 403, 404}
    \/ r.detail = "User must be an active member of this organization"

\* C24: membership rows are unique per (project, user) -- an add-member
\* request for a pair that already has a row is answered 409 and adds no
\* row, also when two requests for the pair overlap.
C24_MembershipUnique ==
    [][/\ \A m1, m2 \in project_members' :
             (m1.project_id = m2.project_id /\ m1.user_id = m2.user_id) => m1 = m2
       /\ (/\ last'.op = "add_project_member"
           /\ last' # last
           /\ GetProjectMembership(last'.project_id, last'.target_user) # {}
           /\ ~RefusedBeforeLookup(last'))
             => (last'.code = 409 /\ project_members' = project_members)]_vars

----------------------------------------------------------------------------
(* Organization creation. An organization's slug is its name in the model,  *)
(* so a slug is in use when it names a row of organizations. With a free    *)
(* slug the handler builds Organization(...) with description, industry,    *)
(* website and address, none of which the model class declares: the         *)
(* constructor raises TypeError before anything is added to the session,    *)
(* and so does OrganizationMember(role=...), whose column is org_role.      *)

CreateOrganization(u, slug) ==
    LET r == GetCurrentActiveUser(u)
        op == "create_organization"
        Answer(x) == [Resp(op, u, NoHeader, NoOrg, 0, 0, NoUser, x.code, x.detail, {})
                          EXCEPT !.body = [slug |-> slug]] IN
    /\ last' = IF r.code # 200 THEN Answer(r)
               ELSE IF slug \in DOMAIN organizations
               THEN Answer(Err(400, "Organization slug already in use"))
               ELSE Answer(InternalError)
    /\ UnchangedButLast

----------------------------------------------------------------------------
(* Specification of the stored constraints: projects are created and        *)
(* updated with every order of the two dates and a budget of either sign,   *)
(* and organizations are created with a used and with a free slug.          *)

Days == {1, 2}
Budgets == {-1, 0}

CreateTerms == [start_date : Days, end_date : Days, total_budget : Budgets]

UpdateTerms ==
    {<<>>} \cup [start_date : Days] \cup [end_date : Days]
    \cup [total_budget : Budgets] \cup [start_date : Days, end_date : Days]

Slugs == {"o1", "acme"}

NextConstraint ==
    \E u \in {"u1", "u2"} :
        \/ \E hdr \in Orgs :
              \/ \E manager_id \in {"u1", "u2"}, terms \in CreateTerms :
                    CreateProject(u, hdr, manager_id, terms)
              \/ \E pid \in ProjectIds, terms \in UpdateTerms :
                    UpdateProject(u, hdr, pid, Unset, terms)
        \/ \E slug \in Slugs : CreateOrganization(u, slug)

SpecConstraint == InitTxn /\ [][NextConstraint]_vars

\* The project the terms of request r would be stored on
AddressedProject(r) ==
    {p \in projects : p.id = r.project_id /\ p.organization_id = r.org
                         /\ ~p.is_deleted}

\* Request r asks for a project whose end date precedes its start date or
\* whose budget is negative, or for an organization with a slug in use
AsksForViolation(r) ==
    \/ /\ r.op = "create_project"
       /\ r.org # NoOrg
       /\ r.body.end_date < r.body.start_date \/ r.body.total_budget < 0
    \/ /\ r.op = "update_project"
       /\ \E p \in AddressedProject(r) :
             LET start_date == IF "start_date" \in DOMAIN r.body
                               THEN r.body.start_date ELSE p.start_date
                 end_date == IF "end_date" \in DOMAIN r.body
                             THEN r.body.end_date ELSE p.end_date
                 total_budget == IF "total_budget" \in DOMAIN r.body
                                 THEN r.body.total_budget ELSE p.total_budget IN
             end_date < start_date \/ total_budget < 0
    \/ /\ r.op = "create_organization"
       /\ r.code \notin {401, 403}
       /\ r.body.slug \in DOMAIN organizations

\* C25: a project create or update that would store end_date < start_date or
\* a negative budget, and an organization create with a slug in use, are
\* answered with a client error (400, or the 422 of a body the request
\* schema rejects) and never 500, and no stored project breaks either
\* constraint.
C25_ConstraintsAsClientErrors ==
    [][/\ AsksForViolation(last') => last'.code \in {400, 422}
       /\ \A p \in projects' : p.end_date >= p.start_date /\ p.total_budget >= 0]_vars

\* C26: a create by a usable caller with a free slug succeeds, and the
\* creator then holds an Active Org_Admin membership of the new organization,
\* which is usable as their context.
C26_CreatorBecomesAdmin ==
    [][(/\ last'.op = "create_organization"
        /\ CallerUsable(last'.user)
        /\ last'.body.slug \notin DOMAIN organizations)
          => /\ last'.code = 201
             /\ \E o \in DOMAIN organizations' :
                   /\ o = last'.body.slug
                   /\ organizations'[o].is_active
                   /\ ~organizations'[o].is_deleted
             /\ \E m \in org_members' :
                   /\ m.organization_id = last'.body.slug
                   /\ m.user_id = last'.user
                   /\ m.org_role = "Org_Admin"
                   /\ m.status = "Active"]_vars

----------------------------------------------------------------------------
(* Documents: the upload stores the file and then the row. *)

MaxDocuments == 1

Uploads == {"stored", "extension not allowed", "too large", "storage failed"}

\* POST /projects/{pid}/documents
UploadDocument(u, hdr, pid, upload) ==
    LET g == TaskGate(u, hdr, pid, "can_upload_documents")
        op == "upload_document"
        did == Cardinality(documents) + 1 IN
    /\ Cardinality(documents) < MaxDocuments
    /\ IF g.code # 200 THEN Fail(op, u, hdr, g.org, pid, 0, g)
       ELSE IF upload \in {"extension not allowed", "too large"}
       THEN Fail(op, u, hdr, g.org, pid, 0, Err(400, upload))
       ELSE IF upload = "storage failed"
       THEN Fail(op, u, hdr, g.org, pid, 0, Err(500, "Failed to upload file"))
       ELSE /\ documents' = documents \cup {DocumentRow(did, g.org, pid, FALSE)}
            /\ last' = Resp(op, u, hdr, g.org, pid, did, NoUser, 201, "", {did})
            /\ UNCHANGED <<boq_headers, boq_items, revoked_tokens, issued, inflight,
                           users, organizations, org_members, projects,
                           project_members, tasks, risks, milestones, expenses,
                           notifications>>

----------------------------------------------------------------------------
(* Specification of the organization of project-scoped rows: u1 (o1) and u3 *)
(* (member of o1 and o2) create and update every kind of row; u3 names each *)
(* project under both organization selectors.                               *)

MaxScopedRows == 2

ScopedRows ==
    Cardinality(tasks) + Cardinality(expenses) + Cardinality(risks)
    + Cardinality(milestones) + Cardinality(documents) + Cardinality(boq_headers)

RoomForRow == ScopedRows < MaxScopedRows

\* <<caller, organization selector, project>>: the two managers at home, and
\* u3 naming each project under either of their organizations
ScopeRequests ==
    {<<"u1", "o1", 1>>, <<"u3", "o2", 2>>, <<"u3", "o1", 2>>, <<"u3", "o2", 1>>,
     <<"u3", "o1", 1>>}

NextScope ==
    \E r \in ScopeRequests :
        \/ RoomForRow /\ CreateTask(r[1], r[2], r[3], "Pending", NoUser, NoUser)
        \/ RoomForRow /\ CreateExpense(r[1], r[2], r[3], 0, <<>>)
        \/ RoomForRow /\ CreateRisk(r[1], r[2], r[3], "High", "Low", NoUser)
        \/ RoomForRow /\ CreateMilestone(r[1], r[2], r[3], 3)
        \/ RoomForRow /\ UploadDocument(r[1], r[2], r[3], "stored")
        \/ RoomForRow /\ ImportBoq(r[1], r[2], r[3], <<Row(TRUE, "", "", <<>>, <<>>)>>)
        \/ \E tid \in TaskIds : UpdateTaskProgress(r[1], r[2], r[3], tid, 50)
        \/ \E eid \in ExpenseIds : UpdateExpense(r[1], r[2], r[3], eid, <<>>)
        \/ \E rid \in RiskIds :
              UpdateRisk(r[1], r[2], r[3], rid, Unset, "Low", Unset, Unset)
        \/ \E mid \in MilestoneIds : UpdateMilestone(r[1], r[2], r[3], mid, [status |-> "Completed"])
        \/ \E i \in BoqItemIds :
              PatchBoqItem(r[1], r[2], r[3], i, [percent_complete |-> <<>>])

SpecScope == InitTask /\ [][NextScope]_vars

\* Row x carries the organization of the project it names
InProjectOrganization(x) ==
    \E p \in projects : p.id = x.project_id /\ p.organization_id = x.organization_id

\* C27: every task, expense, risk, milestone, document, BOQ header and BOQ
\* item carries the organization_id of the project its project_id names.
C27_ScopedToProjectOrganization ==
    \A x \in tasks \cup expenses \cup risks \cup milestones \cup documents
             \cup boq_headers \cup boq_items :
        InProjectOrganization(x)

\* A create that names a project of another organization than the selected
\* one has just been refused, while that project holds rows under its own
\* organization.
C27_Witness ==
    /\ last.op \in {"create_task", "create_expense", "create_risk",
                    "create_milestone", "upload_document", "import_boq"}
    /\ last.code = 404
    /\ \E p \in projects :
          /\ p.id = last.project_id
          /\ ~p.is_deleted
          /\ p.organization_id # last.org
          /\ \E x \in tasks \cup expenses \cup risks \cup milestones \cup documents
                      \cup boq_items :
                x.project_id = p.id /\ x.organization_id = p.organization_id


----------------------------------------------------------------------------
(* Specification of task status and progress: every user creates tasks of   *)
(* project 1 in any status and patches their status and their progress (the *)
(* manager u1 is allowed to, the others are refused).                       *)

CoupledStatuses == {"Pending", "In Progress", "Completed", "Blocked"}

CoupledProgress == {0, 50, 100}

NextCoupled ==
    \E u \in Users, hdr \in Orgs :
        \/ \E status \in CoupledStatuses :
              CreateTask(u, hdr, 1, status, NoUser, NoUser)
        \/ \E tid \in TaskIds :
              \/ \E status \in CoupledStatuses :
                    UpdateTaskStatus(u, hdr, 1, tid, status)
              \/ \E progress \in CoupledProgress :
                    UpdateTaskProgress(u, hdr, 1, tid, progress)

SpecCoupled == InitTask /\ [][NextCoupled]_vars

\* C28: a task whose status is Completed has progress 100 and a task whose
\* status is Pending has progress 0, after any sequence of task creations,
\* status patches and progress patches.
C28_StatusProgressCoupled ==
    \A t \in tasks :
        /\ t.status = "Completed" => t.progress = 100
        /\ t.status = "Pending" => t.progress = 0

\* the Pending half of the coupling
PendingHasNoProgress ==
    \A t \in tasks : t.status = "Pending" => t.progress = 0


----------------------------------------------------------------------------
(* Two overlapping notification lists. list_notifications reads the due     *)
(* milestones and the caller's existing 'milestone_due_soon' rows, adds a   *)
(* row for every due milestone without one and commits; other requests can  *)
(* commit between its reads and its commit. The notifications table has no  *)
(* unique constraint (models/notification.py, migration 006), so the commit *)
(* always succeeds.                                                         *)

MaxDueSoonRows == 2

ListSlots == 1..MaxInflight

\* the reads of ensure_due_soon_milestone_notifications
ListNotificationsRead(u, hdr, pid, slot) ==
    LET ctx == GetOrgContext(u, hdr)
        op == "list_notifications" IN
    /\ Cardinality(inflight) < MaxInflight
    /\ \A q \in inflight : q.entity_id # slot
    /\ IF ctx.code # 200 THEN Fail(op, u, hdr, NoOrg, pid, 0, ctx)
       ELSE LET accessible == AccessibleProjectIds(ctx.org, u) IN
            IF pid # 0 /\ pid \notin accessible
            THEN Fail(op, u, hdr, ctx.org, pid, 0,
                      Err(403, "You do not have access to this project"))
            ELSE /\ inflight' = inflight \cup
                        {[op |-> op, user |-> u, hdr |-> hdr, org |-> ctx.org,
                          project_id |-> pid, entity_id |-> slot, text |-> <<>>,
                          loaded |-> DueSoonMilestones(ctx.org, u,
                                        IF pid # 0 THEN {pid} ELSE accessible)]}
                 /\ UNCHANGED <<boq_headers, boq_items, revoked_tokens, issued,
                                users, organizations, org_members, projects,
                                project_members, tasks, risks, milestones,
                                expenses, documents, notifications, last>>

\* the inserts, the commit and the listing that follows
ListNotificationsCommit(q) ==
    LET due == q.loaded
        created ==
            {[id |-> Cardinality(notifications)
                       + Cardinality({x \in due : x.id <= m.id}),
              organization_id |-> q.org, user_id |-> q.user,
              project_id |-> m.project_id,
              notification_type |-> "milestone_due_soon",
              ref |-> m.id, is_read |-> FALSE] : m \in due}
        after == notifications \cup created IN
    /\ q \in inflight
    /\ Cardinality(after) <= MaxDueSoonRows
    /\ inflight' = inflight \ {q}
    /\ notifications' = after
    /\ last' = Resp(q.op, q.user, q.hdr, q.org, q.project_id, 0, NoUser, 200, "",
                    {n.id : n \in {x \in after :
                        /\ x.organization_id = q.org
                        /\ x.user_id = q.user
                        /\ (q.project_id # 0 => x.project_id = q.project_id)}})
    /\ UNCHANGED <<boq_headers, boq_items, revoked_tokens, issued,
                   users, organizations, org_members, projects,
                   project_members, tasks, risks, milestones,
                   expenses, documents>>

TargetDates == {3, 30}      \* within the coming week, beyond it

NextListRace ==
    \/ \E u \in {"u1", "u2"}, hdr \in Orgs :
          \/ \E target_date \in TargetDates : CreateMilestone(u, hdr, 1, target_date)
          \/ \E pid \in {0, 1}, slot \in ListSlots :
                ListNotificationsRead(u, hdr, pid, slot)
    \/ \E q \in inflight : ListNotificationsCommit(q)

SpecListRace == InitTask /\ [][NextListRace]_vars

\* C29: at most one 'milestone_due_soon' notification exists per milestone
\* and user, however often the user lists notifications and also when two
\* of the user's list requests overlap.
C29_OneDueSoonPerPair ==
    \A n1, n2 \in notifications :
        (/\ n1.notification_type = "milestone_due_soon"
         /\ n2.notification_type = "milestone_due_soon"
         /\ n1.ref = n2.ref
         /\ n1.user_id = n2.user_id) => n1 = n2


----------------------------------------------------------------------------
(* Specification of the milestone's actual date: u1 and u3 create           *)
(* milestones of project 1 and update their status, actual date and target  *)
(* date, in every combination of sent, null and absent fields below.        *)

SentStatuses == {"Completed", "completed", "Delayed", "In Progress", "Done", "", Null}

SentDates == {<<>>, <<5>>}

MilestoneBodies ==
    {[status |-> st] : st \in SentStatuses}
    \cup {[actual_date |-> d] : d \in SentDates}
    \cup {[target_date |-> d] : d \in SentDates}
    \cup {[status |-> st, actual_date |-> d] :
             st \in {"Completed", "Delayed"}, d \in SentDates}

NextActualDate ==
    \E u \in {"u1", "u3"}, hdr \in Orgs :
        \/ CreateMilestone(u, hdr, 1, 3)
        \/ \E mid \in MilestoneIds :
              \/ \E body \in MilestoneBodies : UpdateMilestone(u, hdr, 1, mid, body)
              \/ DeleteMilestone(u, hdr, 1, mid)

SpecActualDate == InitTask /\ [][NextActualDate]_vars

\* C30: a stored milestone has an actual date if and only if its status is
\* Completed, after any sequence of milestone creations and updates.
C30_ActualDateIffCompleted ==
    \A m \in milestones : (m.actual_date # <<>>) <=> (m.status = "Completed")

\* An update that sent an actual date together with the status Delayed was
\* accepted, and the stored milestone is Delayed without an actual date
C30_Witness ==
    /\ last.op = "update_milestone"
    /\ last.code = 200
    /\ DOMAIN last.body = {"status", "actual_date"}
    /\ \E m \in milestones :
          /\ m.id = last.entity_id
          /\ m.status = "Delayed"
          /\ last.body.actual_date = <<5>>
          /\ m.actual_date = <<>>

============================================================================
